---- MODULE Spec2Model ----
(***************************************************************************)
(* Model of the AI Merge system (src/ai_merge_system.py) and of its        *)
(* multi-modal extension (src/multi_modal_ai_merge_system.py).             *)
(*                                                                         *)
(* Text is a sequence of one-character strings, so that strip, split,      *)
(* lower, find, endswith and slicing are computed character by character   *)
(* as Python computes them.  Confidences and scores are exact rationals    *)
(* [n, d] in lowest terms (binary floating-point rounding is not           *)
(* modelled).  sha256 is taken to be injective: a hash is the string that  *)
(* the code feeds to the digest.                                           *)
(***************************************************************************)
EXTENDS Integers, Sequences, FiniteSets, TLC

\* ------------------------------------------------------------------------
\* Python built-ins used by the code
\* ------------------------------------------------------------------------

Whitespace == {" ", "\n", "\t"}

UpperCase ==
  <<"A","B","C","D","E","F","G","H","I","J","K","L","M",
    "N","O","P","Q","R","S","T","U","V","W","X","Y","Z">>

LowerCase ==
  <<"a","b","c","d","e","f","g","h","i","j","k","l","m",
    "n","o","p","q","r","s","t","u","v","w","x","y","z">>

MinOf(S) == CHOOSE x \in S : \A y \in S : x <= y

MaxOf(S) == CHOOSE x \in S : \A y \in S : y <= x

IMin(a, b) == IF a <= b THEN a ELSE b

IMax(a, b) == IF a >= b THEN a ELSE b

IAbs(a) == IF a < 0 THEN -a ELSE a

lower_char(c) ==
  IF \E i \in 1..Len(UpperCase) : UpperCase[i] = c
    THEN LowerCase[CHOOSE i \in 1..Len(UpperCase) : UpperCase[i] = c]
    ELSE c

\* str.lower()
lower(s) == [i \in 1..Len(s) |-> lower_char(s[i])]

upper_char(c) ==
  IF \E i \in 1..Len(LowerCase) : LowerCase[i] = c
    THEN UpperCase[CHOOSE i \in 1..Len(LowerCase) : LowerCase[i] = c]
    ELSE c

\* str.upper()
upper(s) == [i \in 1..Len(s) |-> upper_char(s[i])]

\* the k-th smallest element of a set of integers
nth(S, k) == CHOOSE i \in S : Cardinality({j \in S : j <= i}) = k

\* the elements of seq at the positions in S, in order
at_positions(seq, S) == [k \in 1..Cardinality(S) |-> seq[nth(S, k)]]

\* str.strip(): without the leading and the trailing whitespace
strip(s) ==
  LET inked == {i \in 1..Len(s) : s[i] \notin Whitespace}
  IN  IF inked = {} THEN <<>> ELSE SubSeq(s, MinOf(inked), MaxOf(inked))

\* str.split() with no argument: the words between runs of whitespace
split(s) ==
  LET inked == {i \in 1..Len(s) : s[i] \notin Whitespace}
      starts == {i \in inked : i = 1 \/ (i - 1) \notin inked}
      ends == {i \in inked : i = Len(s) \/ (i + 1) \notin inked}
  IN  [k \in 1..Cardinality(starts) |-> SubSeq(s, nth(starts, k), nth(ends, k))]

\* s[:n]
slice(s, n) == SubSeq(s, 1, IMin(n, Len(s)))

\* the 0-based positions at which sub occurs in s
occurrences(s, sub) ==
  {i \in 0..(Len(s) - Len(sub)) : SubSeq(s, i + 1, i + Len(sub)) = sub}

\* sub in s
contains(s, sub) == occurrences(s, sub) # {}

\* s.find(sub): the first position, -1 when there is none
find(s, sub) == IF contains(s, sub) THEN MinOf(occurrences(s, sub)) ELSE -1

\* s.endswith(suffixes) for a tuple of suffixes
endswith(s, suffixes) ==
  \E k \in 1..Len(suffixes) :
    /\ Len(suffixes[k]) <= Len(s)
    /\ SubSeq(s, Len(s) - Len(suffixes[k]) + 1, Len(s)) = suffixes[k]

RECURSIVE join(_, _)
join(sep, parts) ==
  IF parts = <<>> THEN <<>>
  ELSE IF Len(parts) = 1 THEN parts[1]
  ELSE parts[1] \o sep \o join(sep, Tail(parts))

\* set(words[:n])
word_set(words, n) == {words[i] : i \in 1..IMin(n, Len(words))}

\* [x for x, k in zip(seq, keep) if k]
select(seq, keep) == at_positions(seq, {i \in 1..Len(seq) : keep[i]})

RECURSIVE digits(_)
digits(n) ==
  IF n < 10 THEN <<SubSeq(<<"0","1","2","3","4","5","6","7","8","9">>, n + 1, n + 1)[1]>>
  ELSE digits(n \div 10) \o digits(n % 10)

\* ------------------------------------------------------------------------
\* Exact rationals
\* ------------------------------------------------------------------------

RECURSIVE gcd(_, _)
gcd(a, b) == IF b = 0 THEN a ELSE gcd(b, a % b)

Rat(n, d) ==
  LET g == gcd(IAbs(n), d)
  IN  [n |-> n \div g, d |-> d \div g]

RZero == Rat(0, 1)

ROne == Rat(1, 1)

RAdd(a, b) == Rat(a.n * b.d + b.n * a.d, a.d * b.d)

RSub(a, b) == Rat(a.n * b.d - b.n * a.d, a.d * b.d)

RMul(a, b) == Rat(a.n * b.n, a.d * b.d)

RDivInt(a, k) == Rat(a.n, a.d * k)

RLe(a, b) == a.n * b.d <= b.n * a.d

RLt(a, b) == a.n * b.d < b.n * a.d

RMin(a, b) == IF RLe(a, b) THEN a ELSE b

RMax(a, b) == IF RLe(a, b) THEN b ELSE a

RECURSIVE rat_sum(_)
rat_sum(seq) == IF seq = <<>> THEN RZero ELSE RAdd(seq[1], rat_sum(Tail(seq)))

\* sum(c.confidence for c in contributions) / len(contributions) if contributions else 0.0
avg_confidence_of(contributions) ==
  IF contributions = <<>> THEN RZero
  ELSE RDivInt(rat_sum([i \in 1..Len(contributions) |-> contributions[i].confidence]),
               Len(contributions))

\* ------------------------------------------------------------------------
\* ContributionValidator (src/ai_merge_system.py)
\* ------------------------------------------------------------------------

CompletenessThreshold == 10

ContextThreshold == 10

RelevanceWords == 20

RelevanceCommon == 2

ContradictionDistance == 100

_check_completeness(contribution, context) ==
  LET content_length == Len(strip(contribution.content))
      issues == IF content_length < CompletenessThreshold
                  THEN <<<<"C","o","n","t","r","i","b","u","t","i","o","n"," ","i","s"," ","t","o","o"," ","b","r","i","e","f"," ","t","o"," ","b","e"," ","m","e","a","n","i","n","g","f","u","l">>>>
                  ELSE <<>>
  IN  [valid |-> Len(issues) = 0, issues |-> issues]

_check_coherence(contribution, context) ==
  LET content == strip(contribution.content)
      issues == IF endswith(content, <<<<".",".",".">>, <<"."," ",".">>, <<".",".">>>>)
                  THEN <<<<"C","o","n","t","r","i","b","u","t","i","o","n"," ","a","p","p","e","a","r","s"," ","i","n","c","o","m","p","l","e","t","e">>>>
                  ELSE <<>>
  IN  [valid |-> Len(issues) = 0, issues |-> issues]

_check_relevance(contribution, context) ==
  LET context_words == word_set(split(lower(context)), RelevanceWords)
      contrib_words == word_set(split(lower(contribution.content)), RelevanceWords)
      issues == IF /\ context # <<>>
                   /\ Len(context) > ContextThreshold
                   /\ Cardinality(context_words \cap contrib_words) < RelevanceCommon
                  THEN <<<<"C","o","n","t","r","i","b","u","t","i","o","n"," ","a","p","p","e","a","r","s"," ","u","n","r","e","l","a","t","e","d"," ","t","o"," ","c","o","n","t","e","x","t">>>>
                  ELSE <<>>
  IN  [valid |-> Len(issues) = 0, issues |-> issues]

_check_consistency(contribution, context) ==
  LET content == lower(contribution.content)
      issues == IF /\ contains(content, <<"y","e","s">>)
                   /\ contains(content, <<"n","o">>)
                   /\ IAbs(find(content, <<"y","e","s">>) - find(content, <<"n","o">>))
                        < ContradictionDistance
                  THEN <<<<"P","o","t","e","n","t","i","a","l"," ","c","o","n","t","r","a","d","i","c","t","i","o","n"," ","d","e","t","e","c","t","e","d">>>>
                  ELSE <<>>
  IN  [valid |-> Len(issues) = 0, issues |-> issues]

IssueCostTenths == 1

MaxDeductionTenths == 5

\* the score with the cap on the deduction left out
quality_score_uncapped(issues) ==
  RMax(RZero, RMin(ROne, RSub(ROne, Rat(Len(issues) * IssueCostTenths, 10))))

\* 1.0 - min(issue_count * 0.1, 0.5), clamped to [0, 1]
_calculate_quality_score(issues) ==
  LET issue_count == Len(issues)
      base_score == RSub(ROne, Rat(IMin(issue_count * IssueCostTenths, MaxDeductionTenths), 10))
  IN  RMax(RZero, RMin(ROne, base_score))

\* the rule list of ContributionValidator.__init__, applied in order
validation_rules(contribution, context) ==
  << _check_completeness(contribution, context),
     _check_coherence(contribution, context),
     _check_relevance(contribution, context),
     _check_consistency(contribution, context) >>

\* the loop leaving at the first rule that fails
first_failed_issues(rule_results) ==
  LET failing == {k \in 1..Len(rule_results) : ~rule_results[k].valid}
  IN  IF failing = {} THEN <<>> ELSE rule_results[MinOf(failing)].issues

\* the loop over the rules: the issues of every rule that fails, in rule order
RECURSIVE failed_issues(_)
failed_issues(rule_results) ==
  IF rule_results = <<>> THEN <<>>
  ELSE (IF ~rule_results[1].valid THEN rule_results[1].issues ELSE <<>>)
         \o failed_issues(Tail(rule_results))

validate(contribution, context) ==
  LET rule_results == validation_rules(contribution, context)
      issues == failed_issues(rule_results)
  IN  [valid |-> \A k \in 1..Len(rule_results) : rule_results[k].valid,
       issues |-> issues,
       quality_score |-> _calculate_quality_score(issues),
       suggestions |-> <<>>]

\* ------------------------------------------------------------------------
\* Contribution and MergeStrategy (src/ai_merge_system.py)
\* ------------------------------------------------------------------------

EmptyHash == <<>>

\* str(float) of a whole number of seconds
format_timestamp(ts) == digits(ts) \o <<".","0">>

\* sha256(f"{agent_id}{content}{timestamp}"), the digest taken as injective
_generate_hash(c) == c.agent_id \o c.content \o format_timestamp(c.timestamp)

\* the construction leaving the hash as the caller gave it
post_init_skipped(c) == c

\* Contribution.__post_init__: fill the hash in when the caller left it empty
__post_init__(c) == IF c.hash = EmptyHash THEN [c EXCEPT !.hash = _generate_hash(c)] ELSE c

Contribution(agent_id, content, timestamp, confidence, hash) ==
  __post_init__([agent_id |-> agent_id, content |-> content, timestamp |-> timestamp,
                 confidence |-> confidence, metadata |-> <<>>, hash |-> hash])

MergeStrategy == {"SYNTHESIS", "CONSENSUS", "COMPLEMENTARY", "COMPETITIVE_EVAL"}

\* What a caller can pass for the strategy besides a MergeStrategy member: a
\* member of another Enum (has .value) or a plain string (has no .value).
ForeignStrategy == {"OTHER_ENUM", "PLAIN_STR"}

has_value(strategy) == strategy # "PLAIN_STR"

strategy_value(strategy) ==
  CASE strategy = "SYNTHESIS" -> "synthesis"
    [] strategy = "CONSENSUS" -> "consensus"
    [] strategy = "COMPLEMENTARY" -> "complementary"
    [] strategy = "COMPETITIVE_EVAL" -> "competitive_evaluation"
    [] OTHER -> "other"

\* Iterating a set of strings: the order follows the hashes of the strings,
\* which the interpreter salts with a seed drawn when the process starts
\* (PYTHONHASHSEED); the code does not control it, and it is the same for
\* every iteration within the process.
VARIABLE hashseed

HashSeeds == {0, 1}

RECURSIVE some_order(_)
some_order(S) ==
  IF S = {} THEN <<>>
  ELSE LET x == CHOOSE y \in S : TRUE
       IN  <<x>> \o some_order(S \ {x})

reversed(list) == [i \in 1..Len(list) |-> list[Len(list) + 1 - i]]

set_order(S) == IF hashseed = 0 THEN some_order(S) ELSE reversed(some_order(S))

\* a list handed on as it is, every repetition kept
list_kept(seq) == seq

\* list(set(seq))
list_set(seq) == set_order({seq[i] : i \in 1..Len(seq)})

\* ------------------------------------------------------------------------
\* SynthesisEngine (src/ai_merge_system.py)
\* ------------------------------------------------------------------------

\* the keys of a dict filled in this order: each value once, by first appearance
insertion_order(seq) ==
  at_positions(seq, {i \in 1..Len(seq) : \A j \in 1..(i - 1) : seq[j] # seq[i]})

agent_ids_of(contributions) == [i \in 1..Len(contributions) |-> contributions[i].agent_id]

contents_of(contributions) == [i \in 1..Len(contributions) |-> contributions[i].content]

MaxPartsPerAgent == 2

DiversityAgents == 5

\* the confidence with the cap at 1.0 left out
synthesis_confidence_unclamped(avg_confidence, agent_count) ==
  RMul(avg_confidence, RAdd(ROne, RMin(Rat(agent_count, DiversityAgents), ROne)))

\* the confidence with a diversity factor that keeps growing with the agents
synthesis_confidence_unbounded_diversity(avg_confidence, agent_count) ==
  RMin(RMul(avg_confidence, RAdd(ROne, Rat(agent_count, DiversityAgents))), ROne)

\* min(avg_confidence * (1 + min(agents / 5.0, 1.0)), 1.0)
synthesis_confidence(avg_confidence, agent_count) ==
  LET agent_diversity_factor == RMin(Rat(agent_count, DiversityAgents), ROne)
  IN  RMin(RMul(avg_confidence, RAdd(ROne, agent_diversity_factor)), ROne)

_synthesize(contributions) ==
  LET agents_in_order == insertion_order(agent_ids_of(contributions))
      agent_contribs(a) ==
        contents_of(select(contributions,
                           [i \in 1..Len(contributions) |-> contributions[i].agent_id = a]))
      agent_synthesis(a) ==
        <<"[">> \o a \o <<" ","P","e","r","s","p","e","c","t","i","v","e","]",":"," ">>
          \o join(<<";"," ">>, slice(agent_contribs(a), MaxPartsPerAgent))
      synthesized_parts ==
        [k \in 1..Len(agents_in_order) |-> agent_synthesis(agents_in_order[k])]
      final_synthesis == join(<<"\n","\n">>, synthesized_parts)
      avg_confidence == avg_confidence_of(contributions)
      final_confidence == synthesis_confidence(avg_confidence, Len(agents_in_order))
  IN  [content |-> final_synthesis, confidence |-> final_confidence]

RECURSIVE flatten(_)
flatten(seqs) == IF seqs = <<>> THEN <<>> ELSE seqs[1] \o flatten(Tail(seqs))

ShortWord == 3

ConsensusPercent == 60

TopWords == 10

count_of(w, words) == Cardinality({i \in 1..Len(words) : words[i] = w})

long_words(text) ==
  LET words == split(text)
  IN  select(words, [i \in 1..Len(words) |-> Len(words[i]) > ShortWord])

\* the words of word_freq, in the order of their first occurrence, whose count
\* reaches the threshold: freq >= len(contributions) * 0.6
consensus_words_of(contributions) ==
  LET all_texts == [i \in 1..Len(contributions) |-> lower(contributions[i].content)]
      counted == flatten([i \in 1..Len(all_texts) |-> long_words(all_texts[i])])
      keys == insertion_order(counted)
      word_freq(w) == count_of(w, counted)
  IN  select(keys, [k \in 1..Len(keys) |->
                      word_freq(keys[k]) * 100 >= Len(contributions) * ConsensusPercent])

_find_consensus(contributions) ==
  LET all_texts == [i \in 1..Len(contributions) |-> lower(contributions[i].content)]
      counted == flatten([i \in 1..Len(all_texts) |-> long_words(all_texts[i])])
      keys == insertion_order(counted)
      consensus_words == consensus_words_of(contributions)
      consensus_content == <<"C","o","n","s","e","n","s","u","s"," ","p","o","i","n","t","s",":"," ">> \o join(<<","," ">>, slice(consensus_words, TopWords))
      consensus_ratio == Rat(Len(consensus_words), IMax(Len(keys), 1))
      avg_confidence == avg_confidence_of(contributions)
      final_confidence == RDivInt(RAdd(consensus_ratio, avg_confidence), 2)
  IN  [content |-> consensus_content, confidence |-> final_confidence]

BriefLength == 100

DiversityAspects == 4

category_of(content) ==
  IF Len(content) < BriefLength THEN <<"b","r","i","e","f","_","i","n","s","i","g","h","t">>
  ELSE IF contains(lower(content), <<"s","o","l","u","t","i","o","n">>) \/ contains(lower(content), <<"a","p","p","r","o","a","c","h">>)
    THEN <<"s","o","l","u","t","i","o","n","_","a","p","p","r","o","a","c","h">>
  ELSE IF contains(lower(content), <<"p","r","o","b","l","e","m">>) \/ contains(lower(content), <<"i","s","s","u","e">>)
    THEN <<"p","r","o","b","l","e","m","_","i","d","e","n","t","i","f","i","c","a","t","i","o","n">>
  ELSE <<"g","e","n","e","r","a","l","_","i","n","p","u","t">>

_combine_complementary(contributions) ==
  LET categories == [i \in 1..Len(contributions) |-> category_of(contributions[i].content)]
      aspects == insertion_order(categories)
      contents(category) ==
        contents_of(select(contributions,
                           [i \in 1..Len(contributions) |-> categories[i] = category]))
      combined_parts ==
        [k \in 1..Len(aspects) |->
           <<"[">> \o upper(aspects[k]) \o <<"]",":"," ">> \o join(<<";"," ">>, contents(aspects[k]))]
      combined_content == join(<<"\n","\n">>, combined_parts)
      avg_confidence == avg_confidence_of(contributions)
      aspect_diversity_factor == RMin(Rat(Len(aspects), DiversityAspects), ROne)
      final_confidence == RMin(RMul(avg_confidence, RAdd(ROne, aspect_diversity_factor)), ROne)
  IN  [content |-> combined_content, confidence |-> final_confidence]

\* sorted(contributions, key=confidence, reverse=True): a stable sort, so among
\* equal confidences the input order is kept
\* the sort with equal confidences in reverse input order
sorted_by_confidence_reversed_ties(contributions) ==
  LET before(j, i) ==
        \/ RLt(contributions[i].confidence, contributions[j].confidence)
        \/ contributions[i].confidence = contributions[j].confidence /\ j > i
      rank(i) == 1 + Cardinality({j \in 1..Len(contributions) : before(j, i)})
  IN  [k \in 1..Len(contributions) |->
         contributions[CHOOSE i \in 1..Len(contributions) : rank(i) = k]]

sorted_by_confidence(contributions) ==
  LET before(j, i) ==
        \/ RLt(contributions[i].confidence, contributions[j].confidence)
        \/ contributions[i].confidence = contributions[j].confidence /\ j < i
      rank(i) == 1 + Cardinality({j \in 1..Len(contributions) : before(j, i)})
  IN  [k \in 1..Len(contributions) |->
         contributions[CHOOSE i \in 1..Len(contributions) : rank(i) = k]]

two_digits(n) == IF n < 10 THEN <<"0">> \o digits(n) ELSE digits(n)

\* f"{x:.2f}" for 0 <= x, x a whole number of hundredths away from a tie
format_2f(x) ==
  LET hundredths == (2 * 100 * x.n + x.d) \div (2 * x.d)
  IN  digits(hundredths \div 100) \o <<".">> \o two_digits(hundredths % 100)

_competitive_evaluation(contributions) ==
  IF contributions = <<>> THEN [content |-> <<>>, confidence |-> RZero]
  ELSE LET sorted_contribs == sorted_by_confidence(contributions)
           best_contrib == sorted_contribs[1]
           evaluation_context ==
             <<"[","S","e","l","e","c","t","e","d"," ","f","o","r"," ","h","i","g","h","e","s","t"," ","c","o","n","f","i","d","e","n","c","e",":"," ">> \o format_2f(best_contrib.confidence) \o <<"]"," ">>
       IN  [content |-> evaluation_context \o best_contrib.content,
            confidence |-> best_contrib.confidence]

\* which strategy function merge_contributions dispatches to
strategy_function(strategy) ==
  CASE strategy = "SYNTHESIS" -> "_synthesize"
    [] strategy = "CONSENSUS" -> "_find_consensus"
    [] strategy = "COMPLEMENTARY" -> "_combine_complementary"
    [] strategy = "COMPETITIVE_EVAL" -> "_competitive_evaluation"
    [] OTHER -> "_synthesize"

apply_strategy(fn, contributions) ==
  CASE fn = "_synthesize" -> _synthesize(contributions)
    [] fn = "_find_consensus" -> _find_consensus(contributions)
    [] fn = "_combine_complementary" -> _combine_complementary(contributions)
    [] fn = "_competitive_evaluation" -> _competitive_evaluation(contributions)

\* the dict validation_results after the loop: a later contribution with the
\* same hash overwrites the entry of an earlier one
validation_map(contributions, context) ==
  [h \in {contributions[i].hash : i \in 1..Len(contributions)} |->
     validate(contributions[MaxOf({i \in 1..Len(contributions) : contributions[i].hash = h})],
              context)]

\* the loop keeping every contribution, valid or not
validated_unfiltered(contributions, context) == contributions

validated(contributions, context) ==
  select(contributions,
         [i \in 1..Len(contributions) |-> validate(contributions[i], context).valid])

NoResult == [none |-> TRUE]

\* The outcome of one call: the MergeResult returned (ret), the exception the
\* call raised instead ("" when it returned), and the strategy functions it ran.
merge_contributions(contributions, strategy, context, time) ==
  LET validated_contributions == validated(contributions, context)
      validation_results == validation_map(contributions, context)
      fn == strategy_function(strategy)
      merged == apply_strategy(fn, validated_contributions)
  IN  IF validated_contributions = <<>>
        THEN [ret |-> [strategy |-> strategy,
                       merged_content |-> <<"N","o"," ","v","a","l","i","d"," ","c","o","n","t","r","i","b","u","t","i","o","n","s"," ","t","o"," ","m","e","r","g","e">>,
                       contributing_agents |-> <<>>,
                       confidence_score |-> RZero,
                       metadata |-> [validation_results |-> validation_results],
                       timestamp |-> time,
                       validation_results |-> validation_results],
              raised |-> "", ran |-> <<>>]
      ELSE IF ~has_value(strategy)
        THEN [ret |-> NoResult, raised |-> "AttributeError", ran |-> <<fn>>]
      ELSE [ret |-> [strategy |-> strategy,
                     merged_content |-> merged.content,
                     contributing_agents |-> list_set(agent_ids_of(validated_contributions)),
                     confidence_score |-> merged.confidence,
                     metadata |-> [total_contributions |-> Len(contributions),
                                   valid_contributions |-> Len(validated_contributions),
                                   strategy |-> strategy_value(strategy),
                                   validation_results |-> validation_results],
                     timestamp |-> time,
                     validation_results |-> validation_results],
            raised |-> "", ran |-> <<fn>>]

\* ------------------------------------------------------------------------
\* Multi-modal data model (src/multi_modal_ai_merge_system.py)
\* ------------------------------------------------------------------------

ModalityType == {"TEXT", "IMAGE", "AUDIO", "VIDEO", "MULTIMODAL"}

modality_value(modality) ==
  CASE modality = "TEXT" -> <<"t","e","x","t">>
    [] modality = "IMAGE" -> <<"i","m","a","g","e">>
    [] modality = "AUDIO" -> <<"a","u","d","i","o">>
    [] modality = "VIDEO" -> <<"v","i","d","e","o">>
    [] modality = "MULTIMODAL" -> <<"m","u","l","t","i","m","o","d","a","l">>

\* An Optional field is a sequence of no element (None) or one element.
None == <<>>

Some(x) == <<x>>

\* Python truthiness of an Optional[str]: neither None nor ""
truthy_text(opt) == opt # None /\ opt[1] # <<>>

\* Python truthiness of an Optional[Path]: a Path object is always true
truthy_path(opt) == opt # None

MultiModalContent(text, image_path, audio_path, video_path) ==
  [text |-> text, image_path |-> image_path, audio_path |-> audio_path,
   video_path |-> video_path, metadata |-> None]

get_primary_modality(content) ==
  IF truthy_path(content.video_path) THEN "VIDEO"
  ELSE IF truthy_path(content.audio_path) THEN "AUDIO"
  ELSE IF truthy_path(content.image_path) THEN "IMAGE"
  ELSE IF truthy_text(content.text) THEN "TEXT"
  ELSE "MULTIMODAL"

HashTextPrefix == 100

\* sha256(f"{agent_id}{modality.value}{timestamp}" + text[:100]), the digest
\* taken as injective
mm_generate_hash(c) ==
  c.agent_id \o modality_value(c.modality) \o format_timestamp(c.timestamp)
    \o (IF truthy_text(c.content.text) THEN slice(c.content.text[1], HashTextPrefix) ELSE <<>>)

mm_post_init(c) == IF c.hash = EmptyHash THEN [c EXCEPT !.hash = mm_generate_hash(c)] ELSE c

MultiModalContribution(agent_id, content, modality, timestamp, confidence, hash) ==
  mm_post_init([agent_id |-> agent_id, content |-> content, modality |-> modality,
                timestamp |-> timestamp, confidence |-> confidence, metadata |-> <<>>,
                hash |-> hash])

\* ------------------------------------------------------------------------
\* The file system the media checks look at: what stat() answers for a path,
\* and the size it reports.
\* ------------------------------------------------------------------------

FileSystem ==
  << [path |-> <<"p","h","o","t","o",".","p","n","g">>,  stat |-> "ok",     st_size |-> 2048],
     [path |-> <<"t","i","n","y",".","p","n","g">>,   stat |-> "ok",     st_size |-> 100],
     [path |-> <<"n","o","t","e","s",".","t","x","t">>,  stat |-> "ok",     st_size |-> 5000],
     [path |-> <<"g","o","n","e",".","j","p","g">>,   stat |-> "ENOENT", st_size |-> 0],
     [path |-> <<"t","a","l","k",".","M","P","3">>,   stat |-> "ok",     st_size |-> 4096],
     [path |-> <<"m","o","v","i","e",".","m","p","4">>,  stat |-> "ok",     st_size |-> 20480],
     [path |-> <<"s","h","o","r","t",".","m","p","4">>,  stat |-> "ok",     st_size |-> 5000] >>

\* a path the file system does not list does not exist
file_of(path) ==
  IF \E k \in 1..Len(FileSystem) : FileSystem[k].path = path
    THEN FileSystem[CHOOSE k \in 1..Len(FileSystem) : FileSystem[k].path = path]
    ELSE [path |-> path, stat |-> "ENOENT", st_size |-> 0]

\* Path.exists()
exists(path) == file_of(path).stat = "ok"

\* Path.stat() raises OSError
stat_fails(path) == file_of(path).stat # "ok"

\* Path.suffix: the last dot of the name and what follows it, "" without one
suffix(path) ==
  LET dots == {i \in 2..Len(path) : path[i] = "."}
  IN  IF dots = {} \/ MaxOf(dots) = Len(path) THEN <<>>
      ELSE SubSeq(path, MaxOf(dots), Len(path))

\* a membership test that finds everything
in_any_list(x, list) == TRUE

in_list(x, list) == \E k \in 1..Len(list) : list[k] = x

ImageFormats == <<<<".","j","p","g">>, <<".","j","p","e","g">>, <<".","p","n","g">>, <<".","g","i","f">>, <<".","b","m","p">>, <<".","w","e","b","p">>>>

AudioFormats == <<<<".","m","p","3">>, <<".","w","a","v">>, <<".","a","a","c">>, <<".","o","g","g">>, <<".","f","l","a","c">>>>

VideoFormats == <<<<".","m","p","4">>, <<".","a","v","i">>, <<".","m","o","v">>, <<".","m","k","v">>, <<".","w","m","v">>>>

ImageMinSize == 1024

AudioMinSize == 1024

VideoMinSize == 10240

\* ------------------------------------------------------------------------
\* MultiModalValidator
\* ------------------------------------------------------------------------

Pass == [valid |-> TRUE, issues |-> <<>>]

rule_result(issues) == [valid |-> Len(issues) = 0, issues |-> issues]

_check_text_completeness(contribution, context) ==
  IF contribution.modality # "TEXT" \/ ~truthy_text(contribution.content.text) THEN Pass
  ELSE rule_result(IF Len(strip(contribution.content.text[1])) < CompletenessThreshold
                     THEN <<<<"T","e","x","t"," ","c","o","n","t","r","i","b","u","t","i","o","n"," ","i","s"," ","t","o","o"," ","b","r","i","e","f"," ","t","o"," ","b","e"," ","m","e","a","n","i","n","g","f","u","l">>>>
                     ELSE <<>>)

_check_text_coherence(contribution, context) ==
  IF contribution.modality # "TEXT" \/ ~truthy_text(contribution.content.text) THEN Pass
  ELSE rule_result(IF endswith(strip(contribution.content.text[1]), <<<<".",".",".">>, <<"."," ",".">>, <<".",".">>>>)
                     THEN <<<<"T","e","x","t"," ","c","o","n","t","r","i","b","u","t","i","o","n"," ","a","p","p","e","a","r","s"," ","i","n","c","o","m","p","l","e","t","e">>>>
                     ELSE <<>>)

_check_text_relevance(contribution, context) ==
  IF \/ contribution.modality # "TEXT"
     \/ ~truthy_text(contribution.content.text)
     \/ context = <<>>
    THEN Pass
  ELSE LET context_words == word_set(split(lower(context)), RelevanceWords)
           contrib_words ==
             word_set(split(lower(contribution.content.text[1])), RelevanceWords)
       IN  rule_result(IF Cardinality(context_words \cap contrib_words) < RelevanceCommon
                         THEN <<<<"T","e","x","t"," ","c","o","n","t","r","i","b","u","t","i","o","n"," ","a","p","p","e","a","r","s"," ","u","n","r","e","l","a","t","e","d"," ","t","o"," ","c","o","n","t","e","x","t">>>>
                         ELSE <<>>)

\* the three validity checks differ in the modality, the slot, the allow-list
\* and the wording only
media_validity(contribution, modality, slot, formats, missing, unsupported) ==
  IF contribution.modality # modality \/ ~truthy_path(slot) THEN Pass
  ELSE rule_result(IF ~exists(slot[1]) THEN <<missing \o slot[1]>>
                   ELSE IF ~in_list(lower(suffix(slot[1])), formats)
                     THEN <<unsupported \o suffix(slot[1])>>
                   ELSE <<>>)

media_quality(contribution, modality, slot, min_size, small, no_access) ==
  IF contribution.modality # modality \/ ~truthy_path(slot) THEN Pass
  ELSE rule_result(IF stat_fails(slot[1]) THEN <<no_access>>
                   ELSE IF file_of(slot[1]).st_size < min_size THEN <<small>>
                   ELSE <<>>)

_check_image_validity(contribution, context) ==
  media_validity(contribution, "IMAGE", contribution.content.image_path, ImageFormats,
                 <<"I","m","a","g","e"," ","f","i","l","e"," ","d","o","e","s"," ","n","o","t"," ","e","x","i","s","t",":"," ">>, <<"U","n","s","u","p","p","o","r","t","e","d"," ","i","m","a","g","e"," ","f","o","r","m","a","t",":"," ">>)

_check_image_quality(contribution, context) ==
  media_quality(contribution, "IMAGE", contribution.content.image_path, ImageMinSize,
                <<"I","m","a","g","e"," ","f","i","l","e"," ","s","i","z","e"," ","i","s"," ","u","n","u","s","u","a","l","l","y"," ","s","m","a","l","l",","," ","m","a","y"," ","b","e"," ","c","o","r","r","u","p","t","e","d"," ","o","r"," ","b","l","a","n","k">>,
                <<"C","o","u","l","d"," ","n","o","t"," ","a","c","c","e","s","s"," ","i","m","a","g","e"," ","f","i","l","e"," ","t","o"," ","c","h","e","c","k"," ","q","u","a","l","i","t","y">>)

_check_image_relevance(contribution, context) == Pass

_check_audio_validity(contribution, context) ==
  media_validity(contribution, "AUDIO", contribution.content.audio_path, AudioFormats,
                 <<"A","u","d","i","o"," ","f","i","l","e"," ","d","o","e","s"," ","n","o","t"," ","e","x","i","s","t",":"," ">>, <<"U","n","s","u","p","p","o","r","t","e","d"," ","a","u","d","i","o"," ","f","o","r","m","a","t",":"," ">>)

_check_audio_quality(contribution, context) ==
  media_quality(contribution, "AUDIO", contribution.content.audio_path, AudioMinSize,
                <<"A","u","d","i","o"," ","f","i","l","e"," ","s","i","z","e"," ","i","s"," ","u","n","u","s","u","a","l","l","y"," ","s","m","a","l","l",","," ","m","a","y"," ","b","e"," ","c","o","r","r","u","p","t","e","d"," ","o","r"," ","s","i","l","e","n","t">>,
                <<"C","o","u","l","d"," ","n","o","t"," ","a","c","c","e","s","s"," ","a","u","d","i","o"," ","f","i","l","e"," ","t","o"," ","c","h","e","c","k"," ","q","u","a","l","i","t","y">>)

_check_audio_relevance(contribution, context) == Pass

_check_video_validity(contribution, context) ==
  media_validity(contribution, "VIDEO", contribution.content.video_path, VideoFormats,
                 <<"V","i","d","e","o"," ","f","i","l","e"," ","d","o","e","s"," ","n","o","t"," ","e","x","i","s","t",":"," ">>, <<"U","n","s","u","p","p","o","r","t","e","d"," ","v","i","d","e","o"," ","f","o","r","m","a","t",":"," ">>)

_check_video_quality(contribution, context) ==
  media_quality(contribution, "VIDEO", contribution.content.video_path, VideoMinSize,
                <<"V","i","d","e","o"," ","f","i","l","e"," ","s","i","z","e"," ","i","s"," ","u","n","u","s","u","a","l","l","y"," ","s","m","a","l","l",","," ","m","a","y"," ","b","e"," ","c","o","r","r","u","p","t","e","d"," ","o","r"," ","e","m","p","t","y">>,
                <<"C","o","u","l","d"," ","n","o","t"," ","a","c","c","e","s","s"," ","v","i","d","e","o"," ","f","i","l","e"," ","t","o"," ","c","h","e","c","k"," ","q","u","a","l","i","t","y">>)

_check_video_relevance(contribution, context) == Pass

\* self.validation_rules.get(contribution.modality, []), applied in order
mm_validation_rules(contribution, context) ==
  CASE contribution.modality = "TEXT" ->
         << _check_text_completeness(contribution, context),
            _check_text_coherence(contribution, context),
            _check_text_relevance(contribution, context) >>
    [] contribution.modality = "IMAGE" ->
         << _check_image_validity(contribution, context),
            _check_image_quality(contribution, context),
            _check_image_relevance(contribution, context) >>
    [] contribution.modality = "AUDIO" ->
         << _check_audio_validity(contribution, context),
            _check_audio_quality(contribution, context),
            _check_audio_relevance(contribution, context) >>
    [] contribution.modality = "VIDEO" ->
         << _check_video_validity(contribution, context),
            _check_video_quality(contribution, context),
            _check_video_relevance(contribution, context) >>
    [] OTHER -> <<>>

mm_calculate_quality_score(issues) ==
  LET issue_count == Len(issues)
      base_score == RSub(ROne, Rat(IMin(issue_count * IssueCostTenths, MaxDeductionTenths), 10))
  IN  RMax(RZero, RMin(ROne, base_score))

mm_validate(contribution, context) ==
  LET rule_results == mm_validation_rules(contribution, context)
      issues == failed_issues(rule_results)
  IN  [valid |-> \A k \in 1..Len(rule_results) : rule_results[k].valid,
       issues |-> issues,
       quality_score |-> mm_calculate_quality_score(issues),
       suggestions |-> <<>>,
       modality |-> modality_value(contribution.modality)]

\* ------------------------------------------------------------------------
\* MultiModalSynthesisEngine
\* ------------------------------------------------------------------------

text_bearing(contributions) ==
  select(contributions,
         [i \in 1..Len(contributions) |-> truthy_text(contributions[i].content.text)])

_text_synthesis(contributions) ==
  LET valid_contribs == text_bearing(contributions)
      text_parts ==
        [k \in 1..Len(valid_contribs) |->
           <<"[">> \o valid_contribs[k].agent_id \o <<"]",":"," ">> \o valid_contribs[k].content.text[1]]
      combined_text == join(<<"\n","\n">>, text_parts)
      avg_confidence == avg_confidence_of(valid_contribs)
      agent_diversity_factor ==
        RMin(Rat(Cardinality({valid_contribs[k].agent_id : k \in 1..Len(valid_contribs)}),
                 DiversityAgents), ROne)
      final_confidence == RMin(RMul(avg_confidence, RAdd(ROne, agent_diversity_factor)), ROne)
  IN  [content |-> MultiModalContent(Some(combined_text), None, None, None),
       confidence |-> final_confidence]

PreviewLength == 100

MaxModalities == 4

\* the line _cross_modal_synthesis writes for one contribution, none when the
\* slot of the declared modality is empty
summary_line(contrib) ==
  IF contrib.modality = "TEXT" /\ truthy_text(contrib.content.text)
    THEN <<<<"T","e","x","t"," ","f","r","o","m"," ">> \o contrib.agent_id \o <<":"," ">>
             \o slice(contrib.content.text[1], PreviewLength) \o <<".",".",".">>>>
  ELSE IF contrib.modality = "IMAGE" /\ truthy_path(contrib.content.image_path)
    THEN <<<<"I","m","a","g","e"," ","f","r","o","m"," ">> \o contrib.agent_id \o <<":"," ">> \o contrib.content.image_path[1]>>
  ELSE IF contrib.modality = "AUDIO" /\ truthy_path(contrib.content.audio_path)
    THEN <<<<"A","u","d","i","o"," ","f","r","o","m"," ">> \o contrib.agent_id \o <<":"," ">> \o contrib.content.audio_path[1]>>
  ELSE IF contrib.modality = "VIDEO" /\ truthy_path(contrib.content.video_path)
    THEN <<<<"V","i","d","e","o"," ","f","r","o","m"," ">> \o contrib.agent_id \o <<":"," ">> \o contrib.content.video_path[1]>>
  ELSE <<>>

_cross_modal_synthesis(contributions) ==
  LET text_summary == flatten([i \in 1..Len(contributions) |-> summary_line(contributions[i])])
      summary_text == join(<<"\n">>, text_summary)
      modalities_present == {contributions[i].modality : i \in 1..Len(contributions)}
      agents_present == {contributions[i].agent_id : i \in 1..Len(contributions)}
      modality_diversity == Rat(Cardinality(modalities_present), MaxModalities)
      agent_diversity == Rat(Cardinality(agents_present), DiversityAgents)
      avg_confidence == avg_confidence_of(contributions)
      final_confidence ==
        RDivInt(RAdd(RAdd(modality_diversity, agent_diversity), avg_confidence), 3)
  IN  [content |-> MultiModalContent(Some(summary_text), None, None, None),
       confidence |-> final_confidence]

DiversityModalities == 3

\* modality.value.title()
modality_title(modality) ==
  LET v == modality_value(modality)
  IN  <<upper_char(v[1])>> \o Tail(v)

_modality_specific_synthesis(contributions) ==
  LET modality_groups ==
        insertion_order([i \in 1..Len(contributions) |-> contributions[i].modality])
      contribs(modality) ==
        select(contributions,
               [i \in 1..Len(contributions) |-> contributions[i].modality = modality])
      agent_names(modality) ==
        join(<<","," ">>, set_order({contribs(modality)[i].agent_id :
                                  i \in 1..Len(contribs(modality))}))
      summary_parts ==
        [k \in 1..Len(modality_groups) |->
           modality_title(modality_groups[k]) \o <<" ","i","n","p","u","t","s"," ","f","r","o","m"," ">>
             \o agent_names(modality_groups[k]) \o <<":"," ">>
             \o digits(Len(contribs(modality_groups[k]))) \o <<" ","i","t","e","m","s">>]
      summary_text == join(<<"\n">>, summary_parts)
      avg_confidence == avg_confidence_of(contributions)
      modality_diversity_factor == RMin(Rat(Len(modality_groups), DiversityModalities), ROne)
      final_confidence ==
        RMin(RMul(avg_confidence, RAdd(ROne, modality_diversity_factor)), ROne)
  IN  [content |-> MultiModalContent(Some(summary_text), None, None, None),
       confidence |-> final_confidence]

\* sorted(word_freq.items(), key=frequency, reverse=True): stable, so words of
\* equal frequency stay in the order in which they were first met
sorted_by_frequency(keys, counted) ==
  LET freq == [i \in 1..Len(keys) |-> count_of(keys[i], counted)]
      before(j, i) == freq[j] > freq[i] \/ (freq[j] = freq[i] /\ j < i)
      rank(i) == 1 + Cardinality({j \in 1..Len(keys) : before(j, i)})
  IN  [k \in 1..Len(keys) |-> keys[CHOOSE i \in 1..Len(keys) : rank(i) = k]]

DefaultConsensusPercent == 50

_multimodal_consensus(contributions) ==
  LET texts == text_bearing(contributions)
      text_contents == [i \in 1..Len(texts) |-> lower(texts[i].content.text[1])]
      agent_names ==
        join(<<","," ">>, set_order({contributions[i].agent_id : i \in 1..Len(contributions)}))
      modality_names ==
        join(<<","," ">>, set_order({modality_value(contributions[i].modality) :
                                  i \in 1..Len(contributions)}))
      summary == <<"M","u","l","t","i","m","o","d","a","l"," ","c","o","n","s","e","n","s","u","s"," ","f","r","o","m"," ">> \o agent_names \o <<" ","a","c","r","o","s","s"," ">>
                   \o modality_names \o <<" ","m","o","d","a","l","i","t","i","e","s">>
      all_words == flatten([i \in 1..Len(text_contents) |-> long_words(text_contents[i])])
      keys == insertion_order(all_words)
      sorted_words == sorted_by_frequency(keys, all_words)
      consensus_words == slice(sorted_words, TopWords)
      consensus_text == <<"C","o","n","s","e","n","s","u","s"," ","p","o","i","n","t","s",":"," ">> \o join(<<","," ">>, consensus_words)
      avg_confidence == avg_confidence_of(contributions)
      consensus_ratio == Rat(Len(consensus_words), IMax(Len(keys), 1))
      final_confidence == RDivInt(RAdd(consensus_ratio, avg_confidence), 2)
  IN  IF text_contents = <<>>
        THEN [content |-> MultiModalContent(Some(summary), None, None, None),
              confidence |-> Rat(DefaultConsensusPercent, 100)]
        ELSE [content |-> MultiModalContent(Some(consensus_text), None, None, None),
              confidence |-> final_confidence]

\* the strategy is a plain string here; these are the recognized ones
MultiModalStrategy == {"cross_modal_synthesis", "modality_specific", "multimodal_consensus"}

mm_strategy_function(strategy) ==
  CASE strategy = "cross_modal_synthesis" -> "_cross_modal_synthesis"
    [] strategy = "modality_specific" -> "_modality_specific_synthesis"
    [] strategy = "multimodal_consensus" -> "_multimodal_consensus"
    [] OTHER -> "_text_synthesis"

mm_apply_strategy(fn, contributions) ==
  CASE fn = "_cross_modal_synthesis" -> _cross_modal_synthesis(contributions)
    [] fn = "_modality_specific_synthesis" -> _modality_specific_synthesis(contributions)
    [] fn = "_multimodal_consensus" -> _multimodal_consensus(contributions)
    [] fn = "_text_synthesis" -> _text_synthesis(contributions)

mm_validation_map(contributions, context) ==
  [h \in {contributions[i].hash : i \in 1..Len(contributions)} |->
     mm_validate(contributions[MaxOf({i \in 1..Len(contributions) :
                                        contributions[i].hash = h})],
                 context)]

mm_validated(contributions, context) ==
  select(contributions,
         [i \in 1..Len(contributions) |-> mm_validate(contributions[i], context).valid])

\* the modality of the first contribution
first_modality(validated_contributions) == validated_contributions[1].modality

\* the output modality: VIDEO before AUDIO before IMAGE, else TEXT
resolve_output_modality(validated_contributions) ==
  LET input_modalities ==
        [i \in 1..Len(validated_contributions) |-> validated_contributions[i].modality]
  IN  IF in_list("VIDEO", input_modalities) THEN "VIDEO"
      ELSE IF in_list("AUDIO", input_modalities) THEN "AUDIO"
      ELSE IF in_list("IMAGE", input_modalities) THEN "IMAGE"
      ELSE "TEXT"

mm_merge_contributions(contributions, strategy, context, time) ==
  LET validated_contributions == mm_validated(contributions, context)
      validation_results == mm_validation_map(contributions, context)
      input_modalities ==
        [i \in 1..Len(validated_contributions) |->
           modality_value(validated_contributions[i].modality)]
      fn == mm_strategy_function(strategy)
      merged == mm_apply_strategy(fn, validated_contributions)
  IN  IF validated_contributions = <<>>
        THEN [ret |-> [strategy |-> strategy,
                       merged_content |->
                         MultiModalContent(Some(<<"N","o"," ","v","a","l","i","d"," ","c","o","n","t","r","i","b","u","t","i","o","n","s"," ","t","o"," ","m","e","r","g","e">>),
                                           None, None, None),
                       contributing_agents |-> <<>>,
                       confidence_score |-> RZero,
                       metadata |-> [validation_results |-> validation_results],
                       timestamp |-> time,
                       validation_results |-> validation_results,
                       output_modality |-> "TEXT"],
              raised |-> "", ran |-> <<>>]
      ELSE [ret |-> [strategy |-> strategy,
                     merged_content |-> merged.content,
                     contributing_agents |-> list_set(agent_ids_of(validated_contributions)),
                     confidence_score |-> merged.confidence,
                     metadata |-> [total_contributions |-> Len(contributions),
                                   valid_contributions |-> Len(validated_contributions),
                                   strategy |-> strategy,
                                   input_modalities |-> input_modalities,
                                   validation_results |-> validation_results],
                     timestamp |-> time,
                     validation_results |-> validation_results,
                     output_modality |-> resolve_output_modality(validated_contributions)],
            raised |-> "", ran |-> <<fn>>]

\* ------------------------------------------------------------------------
\* State
\* ------------------------------------------------------------------------

VARIABLES
  engine,         \* which engine a caller drives directly: "text" or "mm"
  inputs,         \* the contribution list that caller has built
  last,           \* the last direct call to a validator or an engine, with its outcome
  system,         \* which registry class runs: "text" (AIMergeSystem) or "mm"
  agents,         \* self.agents: agent id -> agent record
  contributions,  \* self.contributions
  log,            \* the lines of the event log, oldest first
  lock,           \* self.lock: the thread holding it, or Free
  pc,             \* where each thread stands
  frame,          \* the local variables of each thread's call
  now,            \* what time.time() returns
  objects,        \* how many contribution objects have been constructed so far
  calls           \* how many calls of the registry's methods have been made

vars ==
  <<engine, inputs, last, system, agents, contributions, log, lock, pc, frame, now, objects,
    calls, hashseed>>

\* the seed stays what it was when the process started
engine_vars == <<engine, inputs, last, hashseed>>

registry_vars ==
  <<system, agents, contributions, log, lock, pc, frame, objects, calls, hashseed>>

Threads == {"t1", "t2"}

Free == "free"

NoCall == [op |-> "none"]

NoFrame == [op |-> "none"]

RegistryAtRest ==
  /\ agents = [a \in {} |-> NoFrame]
  /\ contributions = <<>>
  /\ log = <<>>
  /\ lock = Free
  /\ pc = [t \in Threads |-> "idle"]
  /\ frame = [t \in Threads |-> NoFrame]
  /\ objects = 0
  /\ calls = 0

\* ------------------------------------------------------------------------
\* Direct calls to the validators and the engines
\* ------------------------------------------------------------------------

MaxInputs == 3

MaxMediaInputs == 2

MaxIssues == 7

\* agent ids: a1, a2, ...
agent_name(i) == <<"a">> \o digits(i)

TextGood == <<"U","s","e"," ","b","c","r","y","p","t"," ","f","o","r"," ","p","a","s","s","w","o","r","d"," ","h","a","s","h","i","n","g">>

TextSalt == <<"S","t","o","r","e"," ","e","v","e","r","y"," ","p","a","s","s","w","o","r","d"," ","w","i","t","h"," ","b","c","r","y","p","t"," ","e","v","e","r","y"," ","t","i","m","e"," ","w","i","t","h"," ","a"," ","s","a","l","t">>

TextBrief == <<"H","i">>

TextTruncated == <<" "," ","W","e"," ","c","o","u","l","d"," ","h","a","s","h"," ","t","h","e"," ","p","a","s","s","w","o","r","d"," ","w","i","t","h",".","."," "," ">>

TextYesNo == <<"Y","e","s",","," ","n","o",".",".">>

TextContradiction == <<"T","h","e"," ","a","n","s","w","e","r"," ","i","s"," ","y","e","s",","," ","w","e"," ","d","o"," ","n","o","t"," ","s","t","o","r","e"," ","p","l","a","i","n"," ","p","a","s","s","w","o","r","d","s">>

TextEmpty == <<>>

Filler == <<" ","a","n","d"," ","t","h","i","s"," ","s","e","n","t","e","n","c","e"," ","g","o","e","s"," ","o","n"," ","s","o"," ","t","h","a","t"," ","t","h","e"," ","t","e","x","t"," ","g","e","t","s"," ","l","o","n","g","e","r"," ","t","h","a","n"," ","o","n","e"," ","h","u","n","d","r","e","d"," ","c","h","a","r","a","c","t","e","r","s"," ","i","n"," ","a","l","l">>

TextLongSolution == <<"T","h","e"," ","s","o","l","u","t","i","o","n"," ","i","s"," ","t","o"," ","h","a","s","h"," ","w","i","t","h"," ","b","c","r","y","p","t">> \o Filler

TextLongProblem == <<"T","h","e"," ","p","r","o","b","l","e","m"," ","i","s"," ","t","h","e"," ","p","l","a","i","n"," ","t","e","x","t"," ","s","t","o","r","a","g","e">> \o Filler

TextLongGeneral == <<"P","a","s","s","w","o","r","d","s"," ","a","r","e"," ","k","e","p","t"," ","i","n"," ","o","n","e"," ","t","a","b","l","e"," ","t","o","d","a","y">> \o Filler

TextLateContradiction == <<"N","o"," ","p","l","a","i","n"," ","t","e","x","t"," ","i","s"," ","s","t","o","r","e","d">> \o Filler \o <<","," ","y","e","s"," ","o","r"," ","n","o">>

ContextPassword == <<"h","o","w"," ","t","o"," ","s","t","o","r","e"," ","e","v","e","r","y"," ","p","a","s","s","w","o","r","d"," ","w","i","t","h"," ","b","c","r","y","p","t">>

ContextShort == <<"b","c","r","y","p","t">>

Contexts == {<<>>, ContextPassword, ContextShort}

\* the confidence the i-th agent declares, in percent
ConfidencePercent == <<90, 50, 100, 0, 90, 75, 80>>

own_confidence(i) == Rat(ConfidencePercent[((i - 1) % Len(ConfidencePercent)) + 1], 100)

ListAgents == {1, 2}

ListTexts == {TextGood, TextSalt, TextBrief}

ProbeTexts ==
  ListTexts \cup {TextTruncated, TextYesNo, TextContradiction, TextEmpty,
                  TextLongSolution, TextLongProblem, TextLongGeneral,
                  TextLateContradiction}

text_content(text) == MultiModalContent(Some(text), None, None, None)

image_content(path) == MultiModalContent(None, Some(path), None, None)

audio_content(path) == MultiModalContent(None, None, Some(path), None)

video_content(path) == MultiModalContent(None, None, None, Some(path))

ListMedia ==
  { [content |-> text_content(TextGood), modality |-> "TEXT"],
    [content |-> text_content(TextBrief), modality |-> "TEXT"],
    [content |-> image_content(<<"p","h","o","t","o",".","p","n","g">>), modality |-> "IMAGE"],
    [content |-> image_content(<<"g","o","n","e",".","j","p","g">>), modality |-> "IMAGE"],
    [content |-> audio_content(<<"t","a","l","k",".","M","P","3">>), modality |-> "AUDIO"],
    [content |-> video_content(<<"m","o","v","i","e",".","m","p","4">>), modality |-> "VIDEO"],
    [content |-> video_content(<<"g","o","n","e",".","j","p","g">>), modality |-> "VIDEO"] }

ProbeMedia ==
  ListMedia \cup
  { [content |-> text_content(TextTruncated), modality |-> "TEXT"],
    [content |-> text_content(TextEmpty), modality |-> "TEXT"],
    [content |-> image_content(<<"t","i","n","y",".","p","n","g">>), modality |-> "IMAGE"],
    [content |-> image_content(<<"n","o","t","e","s",".","t","x","t">>), modality |-> "IMAGE"],
    [content |-> audio_content(<<"p","h","o","t","o",".","p","n","g">>), modality |-> "AUDIO"],
    [content |-> video_content(<<"s","h","o","r","t",".","m","p","4">>), modality |-> "VIDEO"],
    [content |-> MultiModalContent(None, None, None, None), modality |-> "IMAGE"],
    [content |-> text_content(TextGood), modality |-> "MULTIMODAL"] }

Strategies == MergeStrategy \cup ForeignStrategy

MultiModalStrategies == MultiModalStrategy \cup {"unrecognized"}

\* a caller constructs a contribution and appends it to its list; the whole
\* list is built within one reading of the clock
AddInput ==
  /\ engine = "text"
  /\ last = NoCall
  /\ Len(inputs) < MaxInputs
  /\ \E a \in ListAgents, text \in ListTexts :
       inputs' = Append(inputs, Contribution(agent_name(a), text, now, own_confidence(a),
                                             EmptyHash))
  /\ UNCHANGED <<engine, last, now, registry_vars>>

MMAddInput ==
  /\ engine = "mm"
  /\ last = NoCall
  /\ Len(inputs) < MaxMediaInputs
  /\ \E a \in ListAgents, m \in ListMedia :
       inputs' = Append(inputs, MultiModalContribution(agent_name(a), m.content, m.modality,
                                                       now, own_confidence(a), EmptyHash))
  /\ UNCHANGED <<engine, last, now, registry_vars>>

\* a merge of the text engine that sorts the list it was given in place
MergeSortingInPlace ==
  /\ engine = "text"
  /\ last = NoCall
  /\ \E strategy \in Strategies, context \in {<<>>, ContextPassword} :
       last' = [op |-> "merge", contributions |-> inputs, strategy |-> strategy,
                context |-> context,
                outcome |-> merge_contributions(inputs, strategy, context, now)]
  /\ inputs' = sorted_by_confidence(inputs)
  /\ UNCHANGED <<engine, now, registry_vars>>

\* SynthesisEngine.merge_contributions(inputs, strategy, context)
Merge ==
  /\ engine = "text"
  /\ last = NoCall
  /\ \E strategy \in Strategies, context \in {<<>>, ContextPassword} :
       last' = [op |-> "merge", contributions |-> inputs, strategy |-> strategy,
                context |-> context,
                outcome |-> merge_contributions(inputs, strategy, context, now)]
  /\ UNCHANGED <<engine, inputs, now, registry_vars>>

\* MultiModalSynthesisEngine.merge_contributions(inputs, strategy, context)
MMMerge ==
  /\ engine = "mm"
  /\ last = NoCall
  /\ \E strategy \in MultiModalStrategies, context \in {<<>>, ContextPassword} :
       last' = [op |-> "mm_merge", contributions |-> inputs, strategy |-> strategy,
                context |-> context,
                outcome |-> mm_merge_contributions(inputs, strategy, context, now)]
  /\ UNCHANGED <<engine, inputs, now, registry_vars>>

\* ContributionValidator.validate(contribution, context)
Validate ==
  /\ engine = "text"
  /\ last = NoCall
  /\ inputs = <<>>
  /\ \E a \in ListAgents, text \in ProbeTexts, context \in Contexts :
       LET c == Contribution(agent_name(a), text, now, own_confidence(a), EmptyHash)
       IN  last' = [op |-> "validate", contribution |-> c, context |-> context,
                    result |-> validate(c, context)]
  /\ UNCHANGED <<engine, inputs, now, registry_vars>>

\* MultiModalValidator.validate(contribution, context)
MMValidate ==
  /\ engine = "mm"
  /\ last = NoCall
  /\ inputs = <<>>
  /\ \E a \in ListAgents, m \in ProbeMedia, context \in Contexts :
       LET c == MultiModalContribution(agent_name(a), m.content, m.modality, now,
                                       own_confidence(a), EmptyHash)
       IN  last' = [op |-> "mm_validate", contribution |-> c, context |-> context,
                    result |-> mm_validate(c, context)]
  /\ UNCHANGED <<engine, inputs, now, registry_vars>>

\* the caller repeats its last merge at a later reading of the clock: the same
\* list object, strategy and context go to the same engine of the same process
MergeAgain ==
  /\ last.op \in {"merge", "mm_merge"}
  /\ "again" \notin DOMAIN last
  /\ now' = now + 1
  /\ last' = last @@
       [again |-> IF last.op = "merge"
                  THEN merge_contributions(inputs, last.strategy, last.context, now')
                  ELSE mm_merge_contributions(inputs, last.strategy, last.context, now')]
  /\ UNCHANGED <<engine, inputs, registry_vars>>

\* the contents a caller can construct: every slot left out or filled, the
\* text slot also with the empty string
SlotContents ==
  { MultiModalContent(text, image_path, audio_path, video_path) :
      text \in {None, Some(TextEmpty), Some(TextBrief)},
      image_path \in {None, Some(<<"p","h","o","t","o",".","p","n","g">>)},
      audio_path \in {None, Some(<<"t","a","l","k",".","M","P","3">>)},
      video_path \in {None, Some(<<"m","o","v","i","e",".","m","p","4">>)} }

\* MultiModalContent.get_primary_modality(): the method reads the four slots
\* and assigns to none
PrimaryModality ==
  /\ engine = "mm"
  /\ last = NoCall
  /\ inputs = <<>>
  /\ \E content \in SlotContents :
       last' = [op |-> "get_primary_modality", content |-> content, after |-> content,
                result |-> get_primary_modality(content)]
  /\ UNCHANGED <<engine, inputs, now, registry_vars>>

issue_list(k) == [i \in 1..k |-> <<"i","s","s","u","e">>]

\* _calculate_quality_score on a result that lists k issues
Score ==
  /\ engine \in {"text", "mm"}
  /\ last = NoCall
  /\ inputs = <<>>
  /\ \E k \in 0..MaxIssues :
       last' = [op |-> "score", issues |-> issue_list(k),
                score |-> IF engine = "text" THEN _calculate_quality_score(issue_list(k))
                          ELSE mm_calculate_quality_score(issue_list(k))]
  /\ UNCHANGED <<engine, inputs, now, registry_vars>>

InitEngine ==
  /\ engine \in {"text", "mm"}
  /\ hashseed = 0
  /\ inputs = <<>>
  /\ last = NoCall
  /\ system = "none"
  /\ now = 0
  /\ RegistryAtRest

NextEngine ==
  \/ AddInput \/ MMAddInput \/ Merge \/ MMMerge \/ Validate \/ MMValidate \/ Score
  \/ PrimaryModality

SpecEngine == InitEngine /\ [][NextEngine]_vars

\* ------------------------------------------------------------------------
\* Direct calls on families of lists: k agents, each with its own confidence
\* or all with the same one, each contributing n texts, or one item each over
\* m modalities
\* ------------------------------------------------------------------------

MaxFamilyAgents == 7

MaxPerAgent == 3

ConfidenceProfiles == {"own", "none", "low", "full"}

profile_confidence(profile, i) ==
  CASE profile = "own" -> own_confidence(i)
    [] profile = "none" -> RZero
    [] profile = "low" -> Rat(2, 5)
    [] profile = "full" -> ROne

FamilyTexts == <<TextGood, TextLongSolution, TextSalt, TextLongProblem, TextLongGeneral>>

text_family(k, n, profile) ==
  [p \in 1..(k * n) |->
     LET i == ((p - 1) % k) + 1
     IN  Contribution(agent_name(i), FamilyTexts[((p - 1) % Len(FamilyTexts)) + 1], now,
                      profile_confidence(profile, i), EmptyHash)]

FamilyMedia ==
  << [content |-> text_content(TextGood), modality |-> "TEXT"],
     [content |-> image_content(<<"p","h","o","t","o",".","p","n","g">>), modality |-> "IMAGE"],
     [content |-> audio_content(<<"t","a","l","k",".","M","P","3">>), modality |-> "AUDIO"],
     [content |-> video_content(<<"m","o","v","i","e",".","m","p","4">>), modality |-> "VIDEO"] >>

media_family(k, m, profile) ==
  [i \in 1..k |->
     LET item == FamilyMedia[((i - 1) % m) + 1]
     IN  MultiModalContribution(agent_name(i), item.content, item.modality, now,
                                profile_confidence(profile, i), EmptyHash)]

InitFamily ==
  /\ now = 0
  /\ hashseed \in HashSeeds
  /\ \/ /\ engine = "text"
        /\ \E k \in 1..MaxFamilyAgents, n \in 1..MaxPerAgent, profile \in ConfidenceProfiles :
             inputs = text_family(k, n, profile)
     \/ /\ engine = "mm"
        /\ \E k \in 1..MaxFamilyAgents, m \in 1..Len(FamilyMedia),
              profile \in ConfidenceProfiles :
             inputs = media_family(k, m, profile)
  /\ last = NoCall
  /\ system = "none"
  /\ RegistryAtRest

NextFamily == Merge \/ MMMerge \/ MergeAgain

SpecFamily == InitFamily /\ [][NextFamily]_vars

\* ------------------------------------------------------------------------
\* AIMergeSystem and MultiModalAIMergeSystem: the registry, its lock and its
\* event log, called from several threads
\* ------------------------------------------------------------------------

MaxCalls == 3

\* the calls a thread makes when it is the only caller
MaxSoloCalls == 4

\* the threads that call the registry; a thread that was never started has no
\* position in it
Callers == {t \in Threads : pc[t] # "unstarted"}

SingleCaller == Cardinality(Callers) = 1

MaxTime == 1

AIAgent(id, name, capabilities, confidence, specialty, response_time_ms) ==
  [id |-> id, name |-> name, capabilities |-> capabilities, confidence |-> confidence,
   specialty |-> specialty, response_time_ms |-> response_time_ms]

MultiModalAIAgent(id, name, capabilities, confidence, specialty, supported_modalities, response_time_ms) ==
  [id |-> id, name |-> name, capabilities |-> capabilities, confidence |-> confidence,
   specialty |-> specialty, supported_modalities |-> supported_modalities,
   response_time_ms |-> response_time_ms, contribution_count |-> 0]

\* the agent objects the callers register: the id a1 is registered under two
\* different records, the id a2 under none
RegistryAgents ==
  IF system = "text"
  THEN { AIAgent(agent_name(1), <<"A","l","p","h","a">>, <<<<"c","o","d","e">>>>, Rat(9, 10), <<"s","e","c","u","r","i","t","y">>, 1200),
         AIAgent(agent_name(1), <<"A","l","p","h","a">>, <<<<"c","o","d","e">>>>, Rat(1, 2), <<"s","e","c","u","r","i","t","y">>, 1200) }
  ELSE { MultiModalAIAgent(agent_name(1), <<"A","l","p","h","a">>, <<<<"c","o","d","e">>>>, Rat(9, 10), <<"s","e","c","u","r","i","t","y">>,
                           <<"TEXT", "IMAGE">>, 1200),
         MultiModalAIAgent(agent_name(1), <<"A","l","p","h","a">>, <<<<"c","o","d","e">>>>, Rat(1, 2), <<"s","e","c","u","r","i","t","y">>,
                           <<"TEXT">>, 1200) }

\* the agent ids the callers submit and ask for
RegistryAgentIds == {agent_name(1), agent_name(2)}

\* what the callers submit: the content and, in the multi-modal system, the
\* modality the submit_*_contribution method declares for it
RegistryPayloads ==
  IF system = "text"
  THEN { [content |-> TextGood], [content |-> TextBrief] }
  ELSE { [content |-> text_content(TextGood), modality |-> "TEXT"],
         [content |-> image_content(<<"p","h","o","t","o",".","p","n","g">>), modality |-> "IMAGE"],
         [content |-> image_content(<<"g","o","n","e",".","j","p","g">>), modality |-> "IMAGE"] }
       \cup (IF SingleCaller
              THEN { [content |-> text_content(TextEmpty), modality |-> "TEXT"],
                     [content |-> audio_content(<<"t","a","l","k",".","M","P","3">>), modality |-> "AUDIO"] }
              ELSE {})

\* the strategy argument of a merge: a single caller passes every strategy,
\* two concurrent callers one
RegistryStrategies ==
  IF SingleCaller
  THEN IF system = "text" THEN MergeStrategy ELSE MultiModalStrategy \cup {"unrecognized"}
  ELSE IF system = "text" THEN {"SYNTHESIS"} ELSE {"cross_modal_synthesis"}

UnknownHash == <<"u","n","k","n","o","w","n">>

hashes_of(list) == {list[i].hash : i \in 1..Len(list)}

source_name == IF system = "text" THEN <<"a","i","_","m","e","r","g","e","_","s","y","s","t","e","m">> ELSE <<"m","m","_","a","i","_","m","e","r","g","e","_","s","y","s","t","e","m">>

\* _log_event: the event, stamped, is appended to the log file
_log_event(event) ==
  Append(log, event @@ [ts_ms |-> now * 1000, source |-> source_name])

ContentPreviewLength == 100

ResultPreviewLength == 200

\* content[:n] + "..." if len(content) > n else content
preview(content, n) == IF Len(content) > n THEN slice(content, n) \o <<".",".",".">> ELSE content

\* the object a constructor returns: the identity oid tells two objects with
\* equal fields apart
object(fields, oid) == fields @@ [oid |-> oid]

\* a thread moves from one statement to the next
goto(t, label) == pc' = [pc EXCEPT ![t] = label]

\* a call returns, or leaves by raising: the thread is idle again and its
\* frame keeps what the call gave back
return(t, value) ==
  /\ pc' = [pc EXCEPT ![t] = "idle"]
  /\ frame' = [frame EXCEPT ![t] = frame[t] @@ [returned |-> value, raised |-> ""]]

raise(t, f, error) ==
  /\ pc' = [pc EXCEPT ![t] = "idle"]
  /\ frame' = [frame EXCEPT ![t] = f @@ [raised |-> error]]

\* an idle thread enters a method; the calls are counted
enter(t) ==
  /\ system # "none"
  /\ pc[t] = "idle"
  /\ calls < (IF SingleCaller THEN MaxSoloCalls ELSE MaxCalls)
  /\ calls' = calls + 1

\* with self.lock: blocks until the lock is free
acquire(t) == lock = Free /\ lock' = t

\* a with block left without giving the lock back
release_forgotten(t) == UNCHANGED lock

release(t) == lock' = Free

\* the end of a with block: _log_event writes the event, the lock is
\* released and the call returns value
logged(t, event, value) ==
  /\ log' = _log_event(event)
  /\ release(t)
  /\ return(t, value)

\* the statements that call _log_event
LogStatements ==
  {"register_agent_log", "submit_contribution_log", "merge_all_contributions_log",
   "merge_subset_log", "clear_contributions_log"}

\* _log_event raises instead: open or write fails with OSError, nothing is
\* appended, and the exception leaves the with block, which releases the lock
log_write_fails(t) ==
  /\ pc[t] \in LogStatements
  /\ release(t)
  /\ raise(t, frame[t], "OSError")
  /\ UNCHANGED <<engine_vars, system, agents, contributions, log, now, objects, calls>>

\* the methods whose body is one with self.lock block
LockedMethods ==
  {"register_agent", "merge_all_contributions", "get_contributions_by_agent",
   "clear_contributions"} \cup (IF system = "text" THEN {"merge_subset"} ELSE {})

\* a thread calls one of them while another thread holds the lock: it blocks
\* at the with statement
call_blocked(t) ==
  /\ enter(t)
  /\ lock # Free
  /\ \E method \in LockedMethods :
       /\ frame' = [frame EXCEPT ![t] = [op |-> method]]
       /\ goto(t, method)
  /\ UNCHANGED <<engine_vars, system, agents, contributions, log, lock, now, objects>>

\* the with statement of a method is reached by a thread that calls the
\* method, or by one that has called it and was blocked
begin(t, method) == enter(t) \/ (pc[t] = method /\ UNCHANGED calls)

\* a registration that also carries the new confidence into the stored
\* contributions of the agent
register_agent_set_updating(t) ==
  /\ begin(t, "register_agent")
  /\ acquire(t)
  /\ \E agent \in RegistryAgents :
       /\ frame' = [frame EXCEPT ![t] = [op |-> "register_agent", agent |-> agent]]
       /\ agents' = (agent.id :> agent) @@ agents
       /\ contributions' =
            [i \in 1..Len(contributions) |->
               IF contributions[i].agent_id = agent.id
               THEN [contributions[i] EXCEPT !.confidence = agent.confidence]
               ELSE contributions[i]]
  /\ goto(t, "register_agent_log")
  /\ UNCHANGED <<engine_vars, system, log, now, objects>>

\* register_agent: with self.lock: self.agents[agent.id] = agent
register_agent_set(t) ==
  /\ begin(t, "register_agent")
  /\ acquire(t)
  /\ \E agent \in RegistryAgents :
       /\ frame' = [frame EXCEPT ![t] = [op |-> "register_agent", agent |-> agent]]
       /\ agents' = (agent.id :> agent) @@ agents
  /\ goto(t, "register_agent_log")
  /\ UNCHANGED <<engine_vars, system, contributions, log, now, objects>>

\* the event agent.registered is logged; the lock is released on the way out
register_agent_log(t) ==
  /\ pc[t] = "register_agent_log"
  /\ LET agent == frame[t].agent
         event == [event |-> "agent.registered", agent_id |-> agent.id,
                   agent_name |-> agent.name, capabilities |-> agent.capabilities,
                   specialty |-> agent.specialty]
     IN  logged(t, IF system = "text" THEN event
                   ELSE event @@ [supported_modalities |->
                          [i \in 1..Len(agent.supported_modalities) |->
                             modality_value(agent.supported_modalities[i])]],
                None)
  /\ UNCHANGED <<engine_vars, system, agents, contributions, now, objects, calls>>

\* submit_contribution, _submit_contribution: if agent_id not in self.agents,
\* read without the lock
submit_contribution_check(t) ==
  /\ enter(t)
  /\ \E agent_id \in RegistryAgentIds, payload \in RegistryPayloads :
       LET f == [op |-> "submit_contribution", agent_id |-> agent_id] @@ payload
       IN  IF agent_id \notin DOMAIN agents
           THEN raise(t, f, "ValueError")
           ELSE frame' = [frame EXCEPT ![t] = f] /\ goto(t, "submit_contribution_read")
  /\ UNCHANGED <<engine_vars, system, agents, contributions, log, lock, now, objects>>

\* agent = self.agents[agent_id], read without the lock; the multi-modal
\* system then looks the modality up in the agent's list
submit_contribution_read(t) ==
  /\ pc[t] = "submit_contribution_read"
  /\ IF frame[t].agent_id \notin DOMAIN agents
     THEN raise(t, frame[t], "KeyError")
     ELSE LET agent == agents[frame[t].agent_id]
          IN  IF system = "mm" /\ ~in_list(frame[t].modality, agent.supported_modalities)
              THEN raise(t, frame[t], "ValueError")
              ELSE /\ frame' = [frame EXCEPT ![t] = frame[t] @@ [agent |-> agent]]
                   /\ goto(t, "submit_contribution_new")
  /\ UNCHANGED <<engine_vars, system, agents, contributions, log, lock, now, objects, calls>>

\* the contribution is constructed, without the lock: its timestamp is the
\* clock's reading, its confidence the agent's, its hash that of __post_init__
submit_contribution_new(t) ==
  /\ pc[t] = "submit_contribution_new"
  /\ LET f == frame[t]
         contribution ==
           IF system = "text"
           THEN Contribution(f.agent_id, f.content, now, f.agent.confidence, EmptyHash)
           ELSE MultiModalContribution(f.agent_id, f.content, f.modality, now,
                                       f.agent.confidence, EmptyHash)
     IN  frame' = [frame EXCEPT ![t] = f @@ [contribution |-> object(contribution, objects + 1)]]
  /\ objects' = objects + 1
  /\ goto(t, "submit_contribution_append")
  /\ UNCHANGED <<engine_vars, system, agents, contributions, log, lock, now, calls>>

\* with self.lock: self.contributions.append(contribution)
submit_contribution_append(t) ==
  /\ pc[t] = "submit_contribution_append"
  /\ acquire(t)
  /\ contributions' = Append(contributions, frame[t].contribution)
  /\ goto(t, "submit_contribution_log")
  /\ UNCHANGED <<engine_vars, system, agents, log, frame, now, objects, calls>>

\* the event contribution.submitted is logged, the lock released and the hash
\* of the contribution returned
submit_contribution_log(t) ==
  /\ pc[t] = "submit_contribution_log"
  /\ LET f == frame[t]
         event == [event |-> "contribution.submitted", agent_id |-> f.agent_id,
                   timestamp |-> f.contribution.timestamp]
     IN  logged(t,
           IF system = "text"
           THEN event @@ [content_preview |-> preview(f.content, ContentPreviewLength)]
           ELSE event @@ [modality |-> modality_value(f.modality),
                          has_text |-> f.content.text # None,
                          has_image |-> f.content.image_path # None,
                          has_audio |-> f.content.audio_path # None,
                          has_video |-> f.content.video_path # None],
           f.contribution.hash)
  /\ UNCHANGED <<engine_vars, system, agents, contributions, now, objects, calls>>

RegistryContexts == {<<>>}

\* the result built when self.contributions is empty, or when no stored
\* contribution matches
empty_result(strategy, merged_content, time) ==
  IF system = "text"
  THEN [strategy |-> strategy, merged_content |-> merged_content,
        contributing_agents |-> <<>>, confidence_score |-> RZero,
        metadata |-> [strategy |-> strategy_value(strategy)], timestamp |-> time,
        validation_results |-> <<>>]
  ELSE [strategy |-> strategy,
        merged_content |-> MultiModalContent(Some(merged_content), None, None, None),
        contributing_agents |-> <<>>, confidence_score |-> RZero,
        metadata |-> [strategy |-> strategy], timestamp |-> time,
        validation_results |-> <<>>, output_modality |-> "TEXT"]

\* the list handed to the engine whether it is empty or not
merge_outcome_unguarded(list, strategy, context, placeholder) ==
  IF system = "text"
  THEN merge_contributions(list, strategy, context, now)
  ELSE mm_merge_contributions(list, strategy, context, now)

\* result = a placeholder when the list is empty, otherwise
\* self.synthesis_engine.merge_contributions(list, strategy, context)
merge_outcome(list, strategy, context, placeholder) ==
  IF list = <<>>
  THEN [ret |-> empty_result(strategy, placeholder, now), raised |-> ""]
  ELSE IF system = "text"
  THEN merge_contributions(list, strategy, context, now)
  ELSE mm_merge_contributions(list, strategy, context, now)

\* a merge that computes its result without taking the lock
merge_done_without_lock(t, f, list, outcome, label) ==
  IF outcome.raised # ""
  THEN raise(t, f, outcome.raised) /\ UNCHANGED lock
  ELSE /\ frame' = [frame EXCEPT ![t] = f @@ [result |-> outcome.ret,
                                              selected_contributions |-> list]]
       /\ goto(t, label)
       /\ UNCHANGED lock

\* where a merge stands once the result is computed: it holds the lock, and
\* the list it merged and the result are locals of the call; an exception
\* leaves the with block, and the lock is free again
merge_done(t, f, list, outcome, label) ==
  IF outcome.raised # ""
  THEN raise(t, f, outcome.raised) /\ UNCHANGED lock
  ELSE /\ frame' = [frame EXCEPT ![t] = f @@ [result |-> outcome.ret,
                                              selected_contributions |-> list]]
       /\ goto(t, label)
       /\ lock' = t

merged(t, f, list, placeholder, label) ==
  merge_done(t, f, list, merge_outcome(list, f.strategy, f.context, placeholder), label)

\* merge_all_contributions: with self.lock: the result is a placeholder when
\* the list is empty, otherwise the engine's merge of a copy of the list
merge_all_contributions_merge(t) ==
  /\ begin(t, "merge_all_contributions")
  /\ lock = Free
  /\ \E strategy \in RegistryStrategies, context \in RegistryContexts :
       merged(t, [op |-> "merge_all_contributions", strategy |-> strategy,
                  context |-> context],
              contributions, <<"N","o"," ","c","o","n","t","r","i","b","u","t","i","o","n","s"," ","t","o"," ","m","e","r","g","e">>, "merge_all_contributions_log")
  /\ UNCHANGED <<engine_vars, system, agents, contributions, log, now, objects>>

\* the event merge.completed is logged, the lock released, the result returned
merge_all_contributions_log(t) ==
  /\ pc[t] = "merge_all_contributions_log"
  /\ LET f == frame[t]
         event == [event |-> "merge.completed", confidence_score |-> f.result.confidence_score,
                   contributing_agents |-> f.result.contributing_agents]
     IN  logged(t,
           IF system = "text"
           THEN event @@ [strategy |-> strategy_value(f.strategy),
                          result_preview |-> preview(f.result.merged_content,
                                                     ResultPreviewLength)]
           ELSE event @@ [strategy |-> f.strategy,
                          result_modality |-> modality_value(f.result.output_modality),
                          input_count |-> Len(contributions)],
           f.result)
  /\ UNCHANGED <<engine_vars, system, agents, contributions, now, objects, calls>>

\* merge_subset (AIMergeSystem only): with self.lock: the stored
\* contributions whose hash is in the list are selected and merged
merge_subset_merge(t) ==
  /\ system = "text"
  /\ begin(t, "merge_subset")
  /\ lock = Free
  /\ \E h \in hashes_of(contributions) \cup {UnknownHash},
        strategy \in RegistryStrategies, context \in RegistryContexts :
       merged(t, [op |-> "merge_subset", contribution_hashes |-> <<h>>,
                  strategy |-> strategy, context |-> context],
              select(contributions,
                     [i \in 1..Len(contributions) |-> in_list(contributions[i].hash, <<h>>)]),
              <<"N","o"," ","m","a","t","c","h","i","n","g"," ","c","o","n","t","r","i","b","u","t","i","o","n","s"," ","t","o"," ","m","e","r","g","e">>, "merge_subset_log")
  /\ UNCHANGED <<engine_vars, system, agents, contributions, log, now, objects>>

\* the event merge.subset_completed is logged, the lock released, the result
\* returned
merge_subset_log(t) ==
  /\ pc[t] = "merge_subset_log"
  /\ LET f == frame[t]
     IN  logged(t, [event |-> "merge.subset_completed",
                    strategy |-> strategy_value(f.strategy),
                    selected_count |-> Len(f.selected_contributions),
                    result_preview |-> preview(f.result.merged_content,
                                               ResultPreviewLength),
                    confidence_score |-> f.result.confidence_score],
                f.result)
  /\ UNCHANGED <<engine_vars, system, agents, contributions, now, objects, calls>>

\* get_contributions_by_agent: with self.lock: the stored contributions of the
\* agent are returned; the lock is free again on return
get_contributions_by_agent(t) ==
  /\ begin(t, "get_contributions_by_agent")
  /\ lock = Free
  /\ \E agent_id \in RegistryAgentIds :
       /\ frame' = [frame EXCEPT ![t] =
                      [op |-> "get_contributions_by_agent", agent_id |-> agent_id,
                       returned |-> select(contributions,
                                           [i \in 1..Len(contributions) |->
                                              contributions[i].agent_id = agent_id]),
                       raised |-> ""]]
  /\ goto(t, "idle")
  /\ UNCHANGED <<engine_vars, system, agents, contributions, log, lock, now, objects>>

\* a clear that empties the registry of agents instead of the list
clear_contributions_clearing_agents(t) ==
  /\ begin(t, "clear_contributions")
  /\ acquire(t)
  /\ frame' = [frame EXCEPT ![t] = [op |-> "clear_contributions"]]
  /\ agents' = <<>>
  /\ goto(t, "clear_contributions_log")
  /\ UNCHANGED <<engine_vars, system, contributions, log, now, objects>>

\* a clear that forgets the registered agents as well
clear_contributions_clear_all(t) ==
  /\ begin(t, "clear_contributions")
  /\ acquire(t)
  /\ frame' = [frame EXCEPT ![t] = [op |-> "clear_contributions"]]
  /\ contributions' = <<>>
  /\ agents' = <<>>
  /\ goto(t, "clear_contributions_log")
  /\ UNCHANGED <<engine_vars, system, log, now, objects>>

\* clear_contributions: with self.lock: self.contributions.clear()
clear_contributions_clear(t) ==
  /\ begin(t, "clear_contributions")
  /\ acquire(t)
  /\ frame' = [frame EXCEPT ![t] = [op |-> "clear_contributions"]]
  /\ contributions' = <<>>
  /\ goto(t, "clear_contributions_log")
  /\ UNCHANGED <<engine_vars, system, agents, log, now, objects>>

\* the event contributions.cleared is logged, the lock released
clear_contributions_log(t) ==
  /\ pc[t] = "clear_contributions_log"
  /\ logged(t, [event |-> "contributions.cleared"], None)
  /\ UNCHANGED <<engine_vars, system, agents, contributions, now, objects, calls>>

\* the clock moves on between two readings, or does not
Tick ==
  /\ system # "none"
  /\ now < MaxTime
  /\ now' = now + 1
  /\ UNCHANGED <<engine_vars, registry_vars>>

Init ==
  /\ system \in {"text", "mm"}
  /\ hashseed = 0
  /\ engine = "none"
  /\ inputs = <<>>
  /\ last = NoCall
  /\ now = 0
  /\ RegistryAtRest

register_agent(t) == register_agent_set(t) \/ register_agent_log(t)

submit_contribution(t) ==
  \/ submit_contribution_check(t)
  \/ submit_contribution_read(t)
  \/ submit_contribution_new(t)
  \/ submit_contribution_append(t)
  \/ submit_contribution_log(t)

merge_all_contributions(t) ==
  merge_all_contributions_merge(t) \/ merge_all_contributions_log(t)

merge_subset(t) == merge_subset_merge(t) \/ merge_subset_log(t)

clear_contributions(t) == clear_contributions_clear(t) \/ clear_contributions_log(t)

\* the steps of a thread inside the methods it calls
method(t) ==
  \/ register_agent(t)
  \/ submit_contribution(t)
  \/ merge_all_contributions(t)
  \/ merge_subset(t)
  \/ get_contributions_by_agent(t)
  \/ clear_contributions(t)

\* the steps of one thread among others, while the log file can be written
thread(t) == method(t) \/ call_blocked(t)

Next == (\E t \in Threads : thread(t)) \/ Tick

Spec == Init /\ [][Next]_vars

\* the registry called by the one thread t1, within one reading of the clock
InitSolo ==
  /\ system \in {"text", "mm"}
  /\ hashseed = 0
  /\ engine = "none"
  /\ inputs = <<>>
  /\ last = NoCall
  /\ now = 0
  /\ agents = [a \in {} |-> NoFrame]
  /\ contributions = <<>>
  /\ log = <<>>
  /\ lock = Free
  /\ pc = [t \in Threads |-> IF t = "t1" THEN "idle" ELSE "unstarted"]
  /\ frame = [t \in Threads |-> NoFrame]
  /\ objects = 0
  /\ calls = 0

NextSolo == method("t1")

SpecSolo == InitSolo /\ [][NextSolo]_vars

\* the registry on a log file whose writes may fail, at one clock reading, with
\* threads that the scheduler lets run: a thread inside a call that can take
\* a step eventually takes one. The step that opens the lock section of a
\* merge is enabled exactly when the thread is blocked at the with statement
\* of the merge and the lock is free (the section has an outcome for every
\* list), so weak fairness for it is written out with that condition.
proceed(t) ==
  /\ pc[t] # "idle"
  /\ \/ register_agent(t)
     \/ submit_contribution(t)
     \/ merge_all_contributions_log(t)
     \/ merge_subset_log(t)
     \/ get_contributions_by_agent(t)
     \/ clear_contributions(t)
     \/ log_write_fails(t)

merge_blocked(t) == pc[t] \in {"merge_all_contributions", "merge_subset"}

merge_unblocked(t) == merge_blocked(t) /\ pc'[t] # pc[t]

NextFair == \E t \in Threads : thread(t) \/ log_write_fails(t)

SpecFair ==
  /\ Init
  /\ [][NextFair]_vars
  /\ \A t \in Threads :
       /\ WF_vars(proceed(t))
       /\ \/ []<>~(merge_blocked(t) /\ lock = Free)
          \/ []<><<merge_unblocked(t)>>_vars

\* ------------------------------------------------------------------------
\* Properties
\* ------------------------------------------------------------------------

in_unit_interval(x) == RLe(RZero, x) /\ RLe(x, ROne)

NoValidText == <<"N","o"," ","v","a","l","i","d"," ","c","o","n","t","r","i","b","u","t","i","o","n","s"," ","t","o"," ","m","e","r","g","e">>

text_sentinel(ret) ==
  /\ ret.merged_content = NoValidText
  /\ ret.contributing_agents = <<>>
  /\ ret.confidence_score = RZero

mm_sentinel(ret) ==
  /\ ret.merged_content.text = Some(NoValidText)
  /\ ret.contributing_agents = <<>>
  /\ ret.confidence_score = RZero

some_valid_text(list, context) == \E i \in 1..Len(list) : validate(list[i], context).valid

some_valid_media(list, context) == \E i \in 1..Len(list) : mm_validate(list[i], context).valid

\* C1: a merge call of either engine returns the sentinel (placeholder text, no
\* agents, confidence 0, the validation map of every input) exactly when no
\* input contribution passes validation, and then no strategy function runs;
\* when some contribution is valid exactly one strategy function runs.
AtLeastOneValidGating ==
  /\ last.op = "merge" =>
       LET o == last.outcome
           some_valid == some_valid_text(last.contributions, last.context)
       IN  /\ (o.raised = "" /\ text_sentinel(o.ret)) <=> ~some_valid
           /\ ~some_valid =>
                /\ o.ran = <<>>
                /\ DOMAIN o.ret.validation_results = hashes_of(last.contributions)
           /\ some_valid => Len(o.ran) = 1
  /\ last.op = "mm_merge" =>
       LET o == last.outcome
           some_valid == some_valid_media(last.contributions, last.context)
       IN  /\ (o.raised = "" /\ mm_sentinel(o.ret)) <=> ~some_valid
           /\ ~some_valid =>
                /\ o.ran = <<>>
                /\ DOMAIN o.ret.validation_results = hashes_of(last.contributions)
           /\ some_valid => Len(o.ran) = 1

\* C1 witness: a merge of a non-empty list none of whose contributions is
\* valid has returned the sentinel.
AllInvalidMerged ==
  /\ last.op \in {"merge", "mm_merge"}
  /\ Len(last.contributions) >= 2
  /\ last.outcome.raised = ""
  /\ last.outcome.ret.contributing_agents = <<>>
  /\ last.outcome.ran = <<>>

\* C2: after a merge call of either engine, the validation map holds under the
\* hash of every input contribution that contribution's own verdict and
\* issues, and the contributions counted as valid are those whose own verdict
\* is valid.
ValidationMapHoldsOwnResults ==
  /\ (last.op = "merge" /\ last.outcome.raised = "") =>
       LET ret == last.outcome.ret
           list == last.contributions
           own(i) == validate(list[i], last.context)
       IN  /\ \A i \in 1..Len(list) :
                /\ list[i].hash \in DOMAIN ret.validation_results
                /\ ret.validation_results[list[i].hash].valid = own(i).valid
                /\ ret.validation_results[list[i].hash].issues = own(i).issues
           /\ ret.contributing_agents =
                set_order({list[i].agent_id : i \in {j \in 1..Len(list) : own(j).valid}})
  /\ (last.op = "mm_merge" /\ last.outcome.raised = "") =>
       LET ret == last.outcome.ret
           list == last.contributions
           own(i) == mm_validate(list[i], last.context)
       IN  /\ \A i \in 1..Len(list) :
                /\ list[i].hash \in DOMAIN ret.validation_results
                /\ ret.validation_results[list[i].hash].valid = own(i).valid
                /\ ret.validation_results[list[i].hash].issues = own(i).issues
           /\ ret.contributing_agents =
                set_order({list[i].agent_id : i \in {j \in 1..Len(list) : own(j).valid}})

\* C3: the confidence score of every result of the text engine lies in [0, 1].
TextConfidenceInUnitInterval ==
  (last.op = "merge" /\ last.outcome.raised = "") =>
    in_unit_interval(last.outcome.ret.confidence_score)

\* C3 witness: SYNTHESIS over more than five agents has capped a confidence
\* that the diversity factor had pushed above 1.
SynthesisConfidenceCapped ==
  /\ last.op = "merge"
  /\ last.strategy = "SYNTHESIS"
  /\ last.outcome.raised = ""
  /\ Len(last.outcome.ret.contributing_agents) > DiversityAgents
  /\ last.outcome.ret.confidence_score = ROne
  /\ RLt(avg_confidence_of(validated(last.contributions, last.context)), ROne)

\* C4: the confidence score of every result of the multi-modal engine lies in
\* [0, 1].
MultiModalConfidenceInUnitInterval ==
  (last.op = "mm_merge" /\ last.outcome.raised = "") =>
    in_unit_interval(last.outcome.ret.confidence_score)

\* C5: COMPETITIVE_EVAL returns the greatest confidence among the valid
\* contributions, and the content of the first valid contribution, in input
\* order, that has this confidence, behind the prefix that quotes it.
CompetitiveSelectsFirstMaximum ==
  (/\ last.op = "merge"
   /\ last.strategy = "COMPETITIVE_EVAL"
   /\ some_valid_text(last.contributions, last.context)) =>
    LET ret == last.outcome.ret
        valid == validated(last.contributions, last.context)
        greatest(i) == \A j \in 1..Len(valid) : RLe(valid[j].confidence, valid[i].confidence)
        first == MinOf({i \in 1..Len(valid) : greatest(i)})
    IN  /\ last.outcome.raised = ""
        /\ ret.confidence_score = valid[first].confidence
        /\ \A j \in 1..Len(valid) : RLe(valid[j].confidence, ret.confidence_score)
        /\ ret.merged_content =
             <<"[","S","e","l","e","c","t","e","d"," ","f","o","r"," ","h","i","g","h","e","s","t"," ","c","o","n","f","i","d","e","n","c","e",":"," ">> \o format_2f(valid[first].confidence)
               \o <<"]"," ">> \o valid[first].content

\* C5 witness: two valid contributions tie for the greatest confidence, with
\* different contents, behind a contribution of a smaller confidence.
CompetitiveTieMerged ==
  /\ last.op = "merge"
  /\ last.strategy = "COMPETITIVE_EVAL"
  /\ LET valid == validated(last.contributions, last.context)
     IN  /\ Len(valid) = 3
         /\ RLt(valid[1].confidence, valid[2].confidence)
         /\ valid[2].confidence = valid[3].confidence
         /\ valid[2].content # valid[3].content

expected_score(issue_count) == Rat(10 - IMin(issue_count, 5), 10)

\* C6: every quality score of either validator lies in [0, 1] and is at least
\* 0.5; it is 1 less 0.1 for each issue, the deduction stopping at 0.5, so it
\* never grows with the number of issues.
QualityScoreBounded ==
  /\ last.op = "score" =>
       LET k == Len(last.issues)
       IN  /\ in_unit_interval(last.score)
           /\ RLe(Rat(1, 2), last.score)
           /\ last.score = expected_score(k)
           /\ k > 0 => RLe(last.score, expected_score(k - 1))
  /\ last.op \in {"validate", "mm_validate"} =>
       /\ in_unit_interval(last.result.quality_score)
       /\ RLe(Rat(1, 2), last.result.quality_score)
       /\ last.result.quality_score = expected_score(Len(last.result.issues))
  /\ (last.op \in {"merge", "mm_merge"} /\ last.outcome.raised = "") =>
       \A h \in DOMAIN last.outcome.ret.validation_results :
         LET v == last.outcome.ret.validation_results[h]
         IN  /\ RLe(Rat(1, 2), v.quality_score) /\ RLe(v.quality_score, ROne)
             /\ v.quality_score = expected_score(Len(v.issues))

\* C6 witness: a result with more than five issues has been scored.
ManyIssuesScored ==
  /\ last.op = "score"
  /\ Len(last.issues) > MaxDeductionTenths
  /\ last.score = Rat(1, 2)

own_issues(rule) == IF rule.valid THEN <<>> ELSE rule.issues

\* C7: ContributionValidator.validate answers valid exactly when all four
\* checks pass, which is exactly when it lists no issue, and its issues are
\* those of the failing checks in the order completeness, coherence,
\* relevance, consistency, a check running whatever the checks before it said.
ValidateConjoinsAllChecks ==
  last.op = "validate" =>
    LET c == last.contribution
        completeness == _check_completeness(c, last.context)
        coherence == _check_coherence(c, last.context)
        relevance == _check_relevance(c, last.context)
        consistency == _check_consistency(c, last.context)
    IN  /\ last.result.valid =
             (completeness.valid /\ coherence.valid /\ relevance.valid /\ consistency.valid)
        /\ last.result.valid = (last.result.issues = <<>>)
        /\ last.result.issues =
             own_issues(completeness) \o own_issues(coherence) \o own_issues(relevance)
               \o own_issues(consistency)

\* C7 witness: a contribution that fails all four checks has been validated.
AllChecksFailed ==
  /\ last.op = "validate"
  /\ Len(last.result.issues) = 4
  /\ ~last.result.valid

\* the contribution objects a state holds: those stored in the registry, and
\* those a call has constructed, selected or returned
held_objects(stored, frames) ==
  {stored[i] : i \in 1..Len(stored)}
    \cup {frames[t].contribution :
            t \in {u \in Threads : "contribution" \in DOMAIN frames[u]}}
    \cup UNION {{frames[t].selected_contributions[i] :
                   i \in 1..Len(frames[t].selected_contributions)} :
                t \in {u \in Threads : "selected_contributions" \in DOMAIN frames[u]}}
    \cup UNION {{frames[t].returned[i] : i \in 1..Len(frames[t].returned)} :
                t \in {u \in Threads : /\ frames[u].op = "get_contributions_by_agent"
                                        /\ "returned" \in DOMAIN frames[u]}}

own_hash(c) == IF system = "text" THEN _generate_hash(c) ELSE mm_generate_hash(c)

submitted(t) ==
  /\ pc[t] = "idle"
  /\ frame[t].op = "submit_contribution"
  /\ frame[t].raised = ""
  /\ "returned" \in DOMAIN frame[t]

\* C8: every contribution object has, from its construction on, the hash
\* computed from its own fields; no step of any registry operation changes
\* the hash of an object; and the hash a submission returns is the hash of the
\* contribution it stored.
HashAssignedOnce ==
  [][/\ \A c \in held_objects(contributions', frame') :
          c.hash # EmptyHash /\ c.hash = own_hash(c)
     /\ \A c \in held_objects(contributions, frame), d \in held_objects(contributions', frame') :
          c.oid = d.oid => c.hash = d.hash
     /\ \A t \in Threads :
          submitted(t)' =>
            /\ frame'[t].returned = frame'[t].contribution.hash
            /\ \A i \in 1..Len(contributions') :
                 contributions'[i].oid = frame'[t].contribution.oid =>
                   contributions'[i].hash = frame'[t].returned]_vars

\* C8 witness: a submission has returned the hash of the contribution it
\* stored, and a later merge of all contributions has read that contribution
\* and returned.
SubmittedThenMerged ==
  \E t, u \in Threads :
    /\ submitted(t)
    /\ contributions # <<>>
    /\ contributions[1].oid = frame[t].contribution.oid
    /\ contributions[1].hash = frame[t].returned
    /\ pc[u] = "idle"
    /\ frame[u].op = "merge_all_contributions"
    /\ frame[u].selected_contributions = contributions

\* C9: two different stored contributions never have the same hash, two
\* submissions never return the same hash, and merge_subset called with one
\* hash selects at most one contribution.
HashIdentifiesOneContribution ==
  /\ \A i, j \in 1..Len(contributions) :
       i # j => contributions[i].hash # contributions[j].hash
  /\ \A t, u \in Threads :
       (t # u /\ submitted(t) /\ submitted(u)) => frame[t].returned # frame[u].returned
  /\ \A t \in Threads :
       (frame[t].op = "merge_subset" /\ "selected_contributions" \in DOMAIN frame[t]) =>
         Len(frame[t].selected_contributions) <= 1

\* a thread is between the registration check of a submission and its return
in_submission(t) ==
  pc[t] \in {"submit_contribution_read", "submit_contribution_new",
             "submit_contribution_append", "submit_contribution_log"}

\* C10: a thread that has made the registration check of a submission holds
\* the lock until the submission returns, and while it is there no step of
\* another thread changes the agents, the contributions or the log.
SubmissionIsOneCriticalSection ==
  [][\A t \in Threads :
       /\ in_submission(t) => lock = t
       /\ (in_submission(t) /\ pc'[t] = pc[t]) =>
            (agents' = agents /\ contributions' = contributions /\ log' = log)]_vars

\* a thread has read the contribution list in a merge and has not yet written
\* the merge event
in_merge(t) == pc[t] \in {"merge_all_contributions_log", "merge_subset_log"}

\* the events a merge writes
MergeEvents == {"merge.completed", "merge.subset_completed"}

\* C11: no two merges overlap; from the step in which a merge reads the
\* contribution list to the step in which it appends its event no step of
\* another thread changes the contributions, the agents or the log, and its
\* own step appends exactly its merge event; every change of the log is one
\* event appended at the end by the thread that holds the lock, in the step
\* that releases it, so the events stand in the order of the lock sections.
MergeThenLogAtomic ==
  [][/\ \A t, u \in Threads : (in_merge(t) /\ in_merge(u)) => t = u
     /\ \A t \in Threads :
          in_merge(t) =>
            /\ lock = t
            /\ pc'[t] = pc[t] =>
                 (agents' = agents /\ contributions' = contributions /\ log' = log)
            /\ pc'[t] # pc[t] =>
                 /\ agents' = agents /\ contributions' = contributions
                 /\ Len(log') = Len(log) + 1
                 /\ log'[Len(log')].event \in MergeEvents
                 /\ frame[t].op = "merge_all_contributions" =>
                      frame[t].selected_contributions = contributions
     /\ log' # log =>
          /\ lock \in Threads
          /\ pc'[lock] = "idle" /\ pc[lock] # "idle"
          /\ lock' = Free
          /\ Len(log') = Len(log) + 1
          /\ \A i \in 1..Len(log) : log'[i] = log[i]]_vars

\* C11 witness: after a registration and a submission were logged, a merge
\* has read the stored contribution and holds the lock before its own event is
\* written.
MergeHoldsLock ==
  \E t \in Threads :
    /\ in_merge(t)
    /\ frame[t].selected_contributions # <<>>
    /\ lock = t
    /\ Len(log) = 2

\* C12: a merge of the text engine with a strategy that is none of the four
\* members of MergeStrategy and with at least one valid contribution raises
\* nothing and returns the merged content and the confidence that SYNTHESIS
\* returns for the same contributions and context.
UnrecognizedStrategyFallsBack ==
  (/\ last.op = "merge"
   /\ last.strategy \notin MergeStrategy
   /\ some_valid_text(last.contributions, last.context)) =>
    LET synthesis == merge_contributions(last.contributions, "SYNTHESIS", last.context, now)
    IN  /\ last.outcome.raised = ""
        /\ last.outcome.ret.merged_content = synthesis.ret.merged_content
        /\ last.outcome.ret.confidence_score = synthesis.ret.confidence_score

\* the text of a merged content
merged_text(result) ==
  IF system = "text" THEN Some(result.merged_content) ELSE result.merged_content.text

\* the step of thread t is the lock section of a merge up to its log call
merge_step(t) ==
  /\ pc[t] \notin {"merge_all_contributions_log", "merge_subset_log"}
  /\ frame'[t] # frame[t]
  /\ frame'[t].op \in {"merge_all_contributions", "merge_subset"}
  /\ "strategy" \in DOMAIN frame'[t]

\* C13: for every strategy, merge_all_contributions on a registry without
\* contributions and merge_subset with hashes that match no stored contribution
\* raise nothing and return a result with confidence 0 and no contributing
\* agents, whose content is "No contributions to merge" for a merge of all.
EmptyInputsGiveResults ==
  [][\A t \in Threads :
       LET f == frame'[t]
           all == f.op = "merge_all_contributions"
           matching == IF all THEN contributions
                       ELSE select(contributions,
                                   [i \in 1..Len(contributions) |->
                                      in_list(contributions[i].hash, f.contribution_hashes)])
       IN  /\ (merge_step(t) /\ matching = <<>>) =>
                /\ "raised" \notin DOMAIN f
                /\ pc'[t] \in {"merge_all_contributions_log", "merge_subset_log"}
                /\ f.selected_contributions = <<>>
                /\ f.result.confidence_score = RZero
                /\ f.result.contributing_agents = <<>>
                /\ f.result.strategy = f.strategy
                /\ all => merged_text(f.result) = Some(<<"N","o"," ","c","o","n","t","r","i","b","u","t","i","o","n","s"," ","t","o"," ","m","e","r","g","e">>)
           /\ (in_merge(t) /\ pc'[t] = "idle" /\ frame[t].selected_contributions = <<>>) =>
                /\ f.raised = ""
                /\ f.returned = frame[t].result]_vars

\* C13 witness: a contribution was submitted, clear_contributions emptied the
\* registry, and a merge of all contributions with a strategy other than the
\* default has then returned the placeholder.
EmptyRegistryMerged ==
  \E t \in Threads :
    /\ pc[t] = "idle"
    /\ frame[t].op = "merge_all_contributions"
    /\ "returned" \in DOMAIN frame[t]
    /\ frame[t].strategy \notin {"SYNTHESIS", "cross_modal_synthesis"}
    /\ merged_text(frame[t].returned) = Some(<<"N","o"," ","c","o","n","t","r","i","b","u","t","i","o","n","s"," ","t","o"," ","m","e","r","g","e">>)
    /\ \E i, j \in 1..Len(log) :
         /\ i < j
         /\ log[i].event = "contribution.submitted"
         /\ log[j].event = "contributions.cleared"

\* the step of thread t is the registration check that opens a submission
submission_check(t) ==
  /\ pc[t] = "idle"
  /\ frame'[t] # frame[t]
  /\ frame'[t].op = "submit_contribution"

rejected(f) == "raised" \in DOMAIN f /\ f.raised = "ValueError"

\* C14: a submission is rejected with ValueError exactly when its agent id
\* is not registered at the registration check or, in the multi-modal
\* registry, its modality is not in the supported modalities of the agent
\* record it reads; the steps of a call that ends rejected change neither the
\* contributions nor the agents nor the log, and take no lock.
RejectedSubmissionChangesNothing ==
  [][\A t \in Threads :
       /\ submission_check(t) =>
            /\ rejected(frame'[t]) <=> frame'[t].agent_id \notin DOMAIN agents
            /\ rejected(frame'[t]) <=> pc'[t] = "idle"
            /\ agents' = agents /\ contributions' = contributions
            /\ log' = log /\ lock' = lock
       /\ (pc[t] = "submit_contribution_read" /\ pc'[t] # pc[t]) =>
            LET supported == agents[frame[t].agent_id].supported_modalities
                unsupported ==
                  /\ system = "mm"
                  /\ \A i \in 1..Len(supported) : supported[i] # frame[t].modality
            IN  /\ rejected(frame'[t]) <=> unsupported
                /\ rejected(frame'[t]) <=> pc'[t] = "idle"
                /\ agents' = agents /\ contributions' = contributions
                /\ log' = log /\ lock' = lock
       /\ (pc[t] # "idle" /\ pc'[t] = "idle" /\ rejected(frame'[t])) =>
            pc[t] = "submit_contribution_read"]_vars

\* C14 witness: with a contribution stored and two events logged, a
\* submission for an agent id that was never registered, or in a modality
\* that the registered agent does not support, has been rejected.
SubmissionRejected ==
  \E t \in Threads :
    /\ pc[t] = "idle"
    /\ frame[t].op = "submit_contribution"
    /\ rejected(frame[t])
    /\ Len(contributions) = 1
    /\ Len(log) = 2
    /\ system = "mm" => frame[t].agent_id \in DOMAIN agents

\* C15: the confidence of a contribution is that of the agent record the
\* submission read from the registry, it is stored as constructed, and no
\* later step changes it: a step that changes the agents leaves the stored
\* contributions as they are, and a merge returns the engine's result for the
\* contributions as stored.
ConfidenceIsSnapshot ==
  [][\A t \in Threads :
       /\ (pc[t] = "submit_contribution_read" /\ pc'[t] = "submit_contribution_new") =>
            frame'[t].agent = agents[frame[t].agent_id]
       /\ (pc[t] = "submit_contribution_new" /\ pc'[t] # pc[t]) =>
            frame'[t].contribution.confidence = frame[t].agent.confidence
       /\ (pc[t] = "submit_contribution_append" /\ pc'[t] # pc[t]) =>
            /\ contributions' = Append(contributions, frame[t].contribution)
            /\ SingleCaller =>
                 frame[t].contribution.confidence = agents[frame[t].agent_id].confidence
       /\ \A c \in held_objects(contributions, frame),
             d \in held_objects(contributions', frame') :
            c.oid = d.oid => c.confidence = d.confidence
       /\ agents' # agents => contributions' = contributions
       /\ (merge_step(t) /\ frame'[t].op = "merge_all_contributions"
             /\ "result" \in DOMAIN frame'[t]) =>
            frame'[t].result =
              merge_outcome(contributions, frame'[t].strategy, frame'[t].context,
                            <<"N","o"," ","c","o","n","t","r","i","b","u","t","i","o","n","s"," ","t","o"," ","m","e","r","g","e">>).ret]_vars

\* C15 witness: an agent was registered, a contribution of it stored, the
\* agent registered again with another confidence, and a merge of all
\* contributions has then returned a result from the stored confidence.
MergedAfterReregistration ==
  \E t \in Threads :
    /\ pc[t] = "idle"
    /\ frame[t].op = "merge_all_contributions"
    /\ "returned" \in DOMAIN frame[t]
    /\ Len(contributions) = 1
    /\ contributions[1].confidence # agents[contributions[1].agent_id].confidence
    /\ frame[t].selected_contributions = contributions
    /\ frame[t].returned.contributing_agents # <<>>
    /\ Len(log) = 4

\* C16: once an agent id is registered, the record the registry holds under
\* that id (name, capabilities, confidence, specialty, supported modalities)
\* is the same after every step of every operation.
RegisteredAgentsNeverChange ==
  [][\A id \in DOMAIN agents : id \in DOMAIN agents' /\ agents'[id] = agents[id]]_vars

\* C17: the output modality of a multi-modal merge is the first of VIDEO,
\* AUDIO, IMAGE that is the declared modality of some contribution that
\* passed validation, wherever it stands in the input, and TEXT when there is
\* none, in particular when no contribution passed validation.
OutputModalityByPrecedence ==
  last.op = "mm_merge" =>
    LET list == last.contributions
        surviving == {list[i].modality :
                        i \in {j \in 1..Len(list) : mm_validate(list[j], last.context).valid}}
    IN  /\ last.outcome.raised = ""
        /\ last.outcome.ret.output_modality =
             (IF "VIDEO" \in surviving THEN "VIDEO"
              ELSE IF "AUDIO" \in surviving THEN "AUDIO"
              ELSE IF "IMAGE" \in surviving THEN "IMAGE"
              ELSE "TEXT")

\* C17 witness: a merge whose first contribution is a video that failed
\* validation and whose second is a valid image has the output modality
\* IMAGE.
FailedVideoBeforeImage ==
  /\ last.op = "mm_merge"
  /\ Len(last.contributions) = 2
  /\ last.contributions[1].modality = "VIDEO"
  /\ ~mm_validate(last.contributions[1], last.context).valid
  /\ last.contributions[2].modality = "IMAGE"
  /\ last.outcome.ret.output_modality = "IMAGE"

\* C18: get_primary_modality returns VIDEO if the video slot is populated,
\* else AUDIO if the audio slot is, else IMAGE if the image slot is, else TEXT
\* if the text slot is, else MULTIMODAL, whatever the slots hold, and leaves
\* the content as it was.
PrimaryModalityBySlots ==
  last.op = "get_primary_modality" =>
    /\ last.result =
         (IF last.content.video_path # None THEN "VIDEO"
          ELSE IF last.content.audio_path # None THEN "AUDIO"
          ELSE IF last.content.image_path # None THEN "IMAGE"
          ELSE IF last.content.text # None THEN "TEXT"
          ELSE "MULTIMODAL")
    /\ last.after = last.content

at_with(t) == pc[t] \in LockedMethods \cup {"submit_contribution_append"}

\* C20: with threads that are scheduled fairly and a log file whose writes may
\* fail, every call of a registry method ends, by returning or by raising;
\* a thread that is in no call does not hold the lock, so the lock is released
\* on both ways out; and a thread that reaches a with self.lock statement
\* does not hold the lock already.
EveryCallReturns ==
  /\ [](\A t \in Threads : pc[t] = "idle" => lock # t)
  /\ [](\A t \in Threads : at_with(t) => lock # t)
  /\ \A t \in Threads : (pc[t] # "idle") ~> (pc[t] = "idle")

\* C20 witness: a call has left its with block by the OSError of a failed log
\* write, the lock is free, and the other thread, which was blocked at its
\* with statement meanwhile, can go on.
RaisedAndReleased ==
  \E t, u \in Threads :
    /\ pc[t] = "idle"
    /\ "raised" \in DOMAIN frame[t]
    /\ frame[t].raised = "OSError"
    /\ lock = Free
    /\ at_with(u)

\* ------------------------------------------------------------------------
\* C21: contributing_agents of a result of the text engine that is not the
\* sentinel lists exactly the agents with at least one contribution that passed
\* validation, each of them once, whatever the strategy.
\* ------------------------------------------------------------------------
valid_agents(list, context) ==
  {list[i].agent_id : i \in {j \in 1..Len(list) : validate(list[j], context).valid}}

ContributingAgentsAreTheValidOnes ==
  (last.op = "merge" /\ last.outcome.raised = "" /\ ~text_sentinel(last.outcome.ret)) =>
    LET listed == last.outcome.ret.contributing_agents
    IN  /\ {listed[i] : i \in 1..Len(listed)} = valid_agents(last.contributions, last.context)
        /\ \A i, j \in 1..Len(listed) : listed[i] = listed[j] => i = j

\* C21 witness: COMPETITIVE_EVAL over one agent whose only contribution failed
\* validation and another agent with two valid contributions has listed the
\* second agent alone, once.
OneAgentListedOnce ==
  /\ last.op = "merge"
  /\ last.strategy = "COMPETITIVE_EVAL"
  /\ last.outcome.raised = ""
  /\ Len(last.contributions) = 3
  /\ Len(validated(last.contributions, last.context)) = 2
  /\ Cardinality({last.contributions[i].agent_id : i \in 1..3}) = 2
  /\ Len(last.outcome.ret.contributing_agents) = 1

\* ------------------------------------------------------------------------
\* C22: SYNTHESIS writes one block per agent, the agents in the order of their
\* first valid contribution, each block holding at most the agent's first two
\* contents; its confidence is min(avg * (1 + min(agents / 5, 1)), 1) with avg
\* the mean confidence of all valid contributions, hence never below avg and,
\* from five agents on, min(2 * avg, 1) however many agents there are.
\* ------------------------------------------------------------------------
perspective(valid, first) ==
  LET a == valid[first].agent_id
      own == {j \in 1..Len(valid) : valid[j].agent_id = a}
  IN  <<"[">> \o a \o <<" ","P","e","r","s","p","e","c","t","i","v","e","]",":"," ">> \o valid[nth(own, 1)].content
        \o (IF Cardinality(own) >= 2 THEN <<";"," ">> \o valid[nth(own, 2)].content ELSE <<>>)

SynthesisGroupsByAgent ==
  (/\ last.op = "merge"
   /\ last.strategy = "SYNTHESIS"
   /\ last.outcome.raised = ""
   /\ ~text_sentinel(last.outcome.ret)) =>
    LET valid == validated(last.contributions, last.context)
        firsts == {i \in 1..Len(valid) : \A j \in 1..(i - 1) : valid[j].agent_id # valid[i].agent_id}
        agent_count == Cardinality(firsts)
        avg == avg_confidence_of(valid)
        confidence == last.outcome.ret.confidence_score
    IN  /\ last.outcome.ret.merged_content =
             join(<<"\n","\n">>, [k \in 1..agent_count |-> perspective(valid, nth(firsts, k))])
        /\ confidence = RMin(RMul(avg, RAdd(ROne, RMin(Rat(agent_count, 5), ROne))), ROne)
        /\ RLe(avg, confidence)
        /\ agent_count >= 5 => confidence = RMin(RMul(avg, Rat(2, 1)), ROne)

\* C22 witness: SYNTHESIS over more than five agents with three contributions
\* each has returned twice the mean confidence, below the cap of 1.
SynthesisOfManyAgents ==
  /\ last.op = "merge"
  /\ last.strategy = "SYNTHESIS"
  /\ last.outcome.raised = ""
  /\ Len(last.outcome.ret.contributing_agents) > DiversityAgents
  /\ Len(validated(last.contributions, last.context))
       = 3 * Len(last.outcome.ret.contributing_agents)
  /\ last.outcome.ret.confidence_score = Rat(4, 5)

\* ------------------------------------------------------------------------
\* C23: every word the CONSENSUS output lists has more than 3 characters and
\* occurs in at least 60% of the valid contributions, counted as contributions
\* and not as occurrences.
\* ------------------------------------------------------------------------
contributions_with(w, valid) ==
  {i \in 1..Len(valid) : \E k \in 1..Len(split(lower(valid[i].content))) :
                            split(lower(valid[i].content))[k] = w}

ConsensusWordsAreShared ==
  (/\ last.op = "merge"
   /\ last.strategy = "CONSENSUS"
   /\ last.outcome.raised = ""
   /\ ~text_sentinel(last.outcome.ret)) =>
    LET valid == validated(last.contributions, last.context)
        listed == slice(consensus_words_of(valid), TopWords)
    IN  /\ last.outcome.ret.merged_content = <<"C","o","n","s","e","n","s","u","s"," ","p","o","i","n","t","s",":"," ">> \o join(<<","," ">>, listed)
        /\ \A k \in 1..Len(listed) :
             /\ Len(listed[k]) > 3
             /\ Cardinality(contributions_with(listed[k], valid)) * 10 >= 6 * Len(valid)

\* ------------------------------------------------------------------------
\* C24: for a TEXT contribution and any context, the completeness, coherence
\* and relevance verdicts of MultiModalValidator equal the verdicts of
\* ContributionValidator on the same text and context.
\* ------------------------------------------------------------------------
TextChecksMirrorTextValidator ==
  (/\ last.op = "mm_validate"
   /\ last.contribution.modality = "TEXT"
   /\ last.contribution.content.text # None) =>
    LET c == last.contribution
        plain == Contribution(c.agent_id, c.content.text[1], c.timestamp, c.confidence,
                              EmptyHash)
        rules == mm_validation_rules(c, last.context)
    IN  /\ rules[1].valid = _check_completeness(plain, last.context).valid
        /\ rules[2].valid = _check_coherence(plain, last.context).valid
        /\ rules[3].valid = _check_relevance(plain, last.context).valid

\* ------------------------------------------------------------------------
\* C25: the consistency check fails exactly when the lowercased content holds
\* an occurrence of "yes" and an occurrence of "no" less than 100 positions
\* apart, whichever occurrences they are.
\* ------------------------------------------------------------------------
contradiction_reported(result) ==
  \E k \in 1..Len(result.issues) : result.issues[k] = <<"P","o","t","e","n","t","i","a","l"," ","c","o","n","t","r","a","d","i","c","t","i","o","n"," ","d","e","t","e","c","t","e","d">>

ConsistencyFailsOnAnyClosePair ==
  last.op = "validate" =>
    LET content == lower(last.contribution.content)
    IN  contradiction_reported(last.result)
          <=> \E i \in occurrences(content, <<"y","e","s">>), j \in occurrences(content, <<"n","o">>) :
                IAbs(i - j) < 100

\* ------------------------------------------------------------------------
\* C26: a contribution declared IMAGE, AUDIO or VIDEO is judged valid only if
\* it references a file that exists, carries an extension of the modality's
\* allow-list and is at least as large as the modality's threshold; a missing
\* or unreadable file makes it invalid with issues recorded, and validate
\* returns its result without raising.
\* ------------------------------------------------------------------------
media_slot(c) ==
  CASE c.modality = "IMAGE" -> c.content.image_path
    [] c.modality = "AUDIO" -> c.content.audio_path
    [] c.modality = "VIDEO" -> c.content.video_path

media_formats(modality) ==
  CASE modality = "IMAGE" -> ImageFormats
    [] modality = "AUDIO" -> AudioFormats
    [] modality = "VIDEO" -> VideoFormats

media_min_size(modality) ==
  CASE modality = "IMAGE" -> 1024
    [] modality = "AUDIO" -> 1024
    [] modality = "VIDEO" -> 10240

MediaValidOnlyWithGoodFile ==
  (last.op = "mm_validate" /\ last.contribution.modality \in {"IMAGE", "AUDIO", "VIDEO"}) =>
    LET c == last.contribution
        slot == media_slot(c)
    IN  /\ "valid" \in DOMAIN last.result
        /\ last.result.valid =>
             /\ slot # None
             /\ exists(slot[1])
             /\ in_list(lower(suffix(slot[1])), media_formats(c.modality))
             /\ file_of(slot[1]).st_size >= media_min_size(c.modality)
        /\ (slot # None /\ (~exists(slot[1]) \/ stat_fails(slot[1]))) =>
             (~last.result.valid /\ last.result.issues # <<>>)

\* ------------------------------------------------------------------------
\* C27: the agent registry is changed by register_agent only; the list of
\* contributions by a submission that was accepted, which appends its one
\* contribution at the end and returns, and by clear_contributions, which
\* empties it and keeps the agents; merge_all_contributions, merge_subset and
\* get_contributions_by_agent change neither.
\* ------------------------------------------------------------------------
registering(t) == pc[t] # "register_agent_log" /\ pc'[t] = "register_agent_log"

appending(t) == pc[t] = "submit_contribution_append" /\ pc'[t] = "submit_contribution_log"

clearing(t) == pc[t] # "clear_contributions_log" /\ pc'[t] = "clear_contributions_log"

reading(t) ==
  /\ frame'[t] # frame[t]
  /\ frame'[t].op \in {"merge_all_contributions", "merge_subset", "get_contributions_by_agent"}

ContributionsNameRegisteredAgents ==
  \A i \in 1..Len(contributions) : contributions[i].agent_id \in DOMAIN agents

\* C28 witness: the agent of a stored contribution has been registered again
\* under another record since the submission, and a thread is in a call.
StoredUnderReregisteredAgent ==
  /\ \E i \in 1..Len(contributions) :
       /\ contributions[i].agent_id \in DOMAIN agents
       /\ agents[contributions[i].agent_id].confidence # contributions[i].confidence
  /\ \E t \in Threads : pc[t] \notin {"idle", "unstarted"}

\* ------------------------------------------------------------------------
\* C29: in every reachable state, also after submissions made by several
\* threads at once, the list of contributions is ordered by non-decreasing
\* timestamp.
\* ------------------------------------------------------------------------
SubmissionOrderIsTimestampOrder ==
  \A i, j \in 1..Len(contributions) :
    i < j => contributions[i].timestamp <= contributions[j].timestamp

\* ------------------------------------------------------------------------
\* C30: the declared modality of every contribution stored through
\* submit_text_contribution, submit_image_contribution,
\* submit_audio_contribution or submit_video_contribution equals
\* content.get_primary_modality().
\* ------------------------------------------------------------------------
StoredModalityIsPrimaryModality ==
  system = "mm" =>
    \A i \in 1..Len(contributions) :
      contributions[i].modality = get_primary_modality(contributions[i].content)

====
